---- MODULE Spec2Model ----
(***************************************************************************)
(* A model of the sparrow interpreter (Shom770/sparrow): the lexer, the    *)
(* recursive-descent parser, the Number/List value classes and the         *)
(* tree-walking interpreter.  Each component has its own specification     *)
(* (SpecList, SpecNum, SpecLex, ...) over its own group of variables; the  *)
(* variables of the other components stay at their idle value.            *)
(***************************************************************************)
EXTENDS Integers, Sequences, FiniteSets, TLC

VARIABLES
    lists,      \* name -> List object: [vals: ordered dict, value: sequence]
    listErr,    \* the exception that ended the program, or "none"
    op_tok,     \* Number operations: the operator token of the node visited
    left_node,  \* ... its left (or only) operand, a value
    right_node, \* ... its right operand, a value
    numResult,  \* ... what the visit returned, or "pending"
    source,     \* Lexer: the text handed to Lexer(text), a sequence of characters
    text,       \* Lexer.text: the source with '\n\n' replaced by '\n'
    pos,        \* Lexer.pos
    tokens,     \* the tokens list of tokenize
    lexStatus,  \* "run" in the loop of tokenize, "done" after return, or the exception
    parser_tokens,  \* Parser.tokens
    parser_pos,     \* Parser.pos
    called,         \* Parser.called
    parsing_result, \* parsing_result of parse
    parseStatus,    \* "start", "run" in the loop of parse, "done", or the exception
    ast,                  \* the list of trees main.py hands to the interpreter
    ast_pos,              \* the number of trees interpreted
    symbol_tables,        \* the root SymbolTable and each FunctionNode's local_symbol_table
    node_params,          \* the params attribute of the call nodes that were reassigned
    interpreted_results,  \* interpreted_results of run
    interpStatus,         \* "run", "done", or the exception
    stdout                \* the text main.py writes

listVars == <<lists, listErr>>
numVars == <<op_tok, left_node, right_node, numResult>>
lexVars == <<source, text, pos, tokens, lexStatus>>
parseVars == <<parser_tokens, parser_pos, called, parsing_result, parseStatus>>
interpVars ==
    <<ast, ast_pos, symbol_tables, node_params, interpreted_results, interpStatus, stdout>>
vars == <<listVars, numVars, lexVars, parseVars, interpVars>>

\* a component that is not running
Idle == "idle"
NumIdle == op_tok = Idle /\ left_node = Idle /\ right_node = Idle /\ numResult = Idle
ListIdle == lists = Idle /\ listErr = Idle
LexIdle == source = Idle /\ text = Idle /\ pos = 0 /\ tokens = Idle /\ lexStatus = Idle
ParseIdle ==
    /\ parser_tokens = Idle /\ parser_pos = 0 /\ called = FALSE
    /\ parsing_result = Idle /\ parseStatus = Idle
InterpIdle ==
    /\ ast = Idle /\ ast_pos = 0 /\ symbol_tables = Idle /\ node_params = Idle
    /\ interpreted_results = Idle /\ interpStatus = Idle /\ stdout = Idle

\* the variables of the components other than the one that runs
ListOthers == <<numVars, lexVars, parseVars, interpVars>>
NumOthers == <<listVars, lexVars, parseVars, interpVars>>
LexOthers == <<listVars, numVars, parseVars, interpVars>>
ParseOthers == <<listVars, numVars, lexVars, interpVars>>
InterpOthers == <<listVars, numVars, lexVars, parseVars>>
ListOthersIdle == NumIdle /\ LexIdle /\ ParseIdle /\ InterpIdle
NumOthersIdle == ListIdle /\ LexIdle /\ ParseIdle /\ InterpIdle
LexOthersIdle == ListIdle /\ NumIdle /\ ParseIdle /\ InterpIdle
ParseOthersIdle == ListIdle /\ NumIdle /\ LexIdle /\ InterpIdle
InterpOthersIdle == ListIdle /\ NumIdle /\ LexIdle /\ ParseIdle

(***************************************************************************)
(* Bounds of the model.                                                    *)
(***************************************************************************)
MaxListLen == 4     \* longest list the built-ins are applied to
MaxElements == 2    \* compared list literals have up to MaxElements items
MaxItem == 2        \* list items are the Numbers 1..MaxItem
MaxTextLen == 3     \* every text of up to MaxTextLen characters of Alphabet is lexed
MaxOperators == 2   \* operators in a parsed arithmetic expression
MaxLiteral == 9     \* number literals of the trees are 0..MaxLiteral
MaxDepth == 2       \* for/while/if blocks nested around a return statement
MaxStart == 2       \* for loops start at 0..MaxStart
MaxEnd == 3         \* for loops end at 0..MaxEnd
MaxStep == 2        \* for loops step by -MaxStep..MaxStep, 0 excepted
MaxArg == 3         \* functions are called with the arguments 1..MaxArg
MaxCases == 2       \* cases of an if statement, each of one or two conditions
MaxInt == 3         \* integer operands are -MaxInt..MaxInt, and BigInt
BigInt == 100000    \* one operand large enough for a quotient below 1e-4
MaxAtoms == 3          \* atoms of a condition chained with or
MaxElifs == 3          \* elif arms of an if statement
MaxIterations == 8     \* iterations after which a for loop counts as running on

(***************************************************************************)
(* Python's dict keeps insertion order: a dict is a sequence of <<k, v>>.  *)
(***************************************************************************)
HasKey(d, k) == \E i \in 1..Len(d) : d[i][1] = k

DictGet(d, k) == d[CHOOSE i \in 1..Len(d) : d[i][1] = k][2]

DictSet(d, k, v) ==
    IF HasKey(d, k)
    THEN [i \in 1..Len(d) |-> IF d[i][1] = k THEN <<k, v>> ELSE d[i]]
    ELSE Append(d, <<k, v>>)

DictDel(d, k) == SelectSeq(d, LAMBDA e : e[1] /= k)

DictKeys(d) == {d[i][1] : i \in 1..Len(d)}

RECURSIVE MaxKey(_, _)
MaxKey(d, j) ==
    IF j = Len(d) THEN d[j][1]
    ELSE LET m == MaxKey(d, j + 1) IN IF d[j][1] > m THEN d[j][1] ELSE m

(***************************************************************************)
(* List.__init__ (nodes.py): vals is the dict, value the values in the     *)
(* dict's iteration order.  A list literal is {0: e0, 1: e1, ...}.         *)
(***************************************************************************)
List(d) == [vals |-> d, value |-> [i \in 1..Len(d) |-> d[i][2]]]

ListLiteral(s) == List([i \in 1..Len(s) |-> <<i - 1, s[i]>>])

\* lst.value = [lst.vals[idx].value for idx, _ in enumerate(lst.vals.values())]
\* raises KeyError (value left as it was) when some idx in 0..len-1 is no key
Resync(d, old) ==
    IF \A i \in 0..(Len(d) - 1) : HasKey(d, i)
    THEN [vals |-> d, value |-> [i \in 1..Len(d) |-> DictGet(d, i - 1)], err |-> "none"]
    ELSE [vals |-> d, value |-> old, err |-> "KeyError"]

\* for key, val in zip(keys[idx:], values[idx:]): lst.vals[key - 1] = val
\* (the zip is over a snapshot taken before the loop)
RECURSIVE PopShift(_, _, _)
PopShift(d, snap, j) ==
    IF j > Len(snap) THEN d
    ELSE PopShift(DictSet(d, snap[j][1] - 1, snap[j][2]), snap, j + 1)

\* visit_ExecuteBuiltInsNode, name == "pop"
ExecPop(lst, idx) ==
    LET to_del == Len(lst.vals) - 1
        del_end == idx /= to_del
    IN  IF ~HasKey(lst.vals, idx)
        THEN [vals |-> lst.vals, value |-> lst.value, err |-> "KeyError"]
        ELSE LET d1 == DictDel(lst.vals, idx)
                 d2 == PopShift(d1, d1, idx + 1)
             IN  IF del_end /\ ~HasKey(d2, to_del)
                 THEN [vals |-> d2, value |-> lst.value, err |-> "KeyError"]
                 ELSE Resync(IF del_end THEN DictDel(d2, to_del) ELSE d2, lst.value)

\* visit_ExecuteBuiltInsNode, name == "append"
ExecAppend(lst, item) ==
    IF Len(lst.vals) = 0
    THEN [vals |-> lst.vals, value |-> lst.value, err |-> "IndexError"]
    ELSE Resync(DictSet(lst.vals, MaxKey(lst.vals, 1) + 1, item), lst.value)

\* the loop of extend over second_lst.vals.values(); when both names are the
\* same object the first insertion makes the iterator raise RuntimeError
RECURSIVE ExtendLoop(_, _, _, _)
ExtendLoop(d, src, j, cur_idx) ==
    IF j > Len(src) THEN d
    ELSE ExtendLoop(DictSet(d, cur_idx + 1, src[j][2]), src, j + 1, cur_idx + 1)

\* visit_ExecuteBuiltInsNode, name == "extend"
ExecExtend(lst, second_lst, same) ==
    IF Len(lst.vals) = 0
    THEN [vals |-> lst.vals, value |-> lst.value, err |-> "IndexError"]
    ELSE LET cur_idx == MaxKey(lst.vals, 1)
         IN  IF same
             THEN [vals |-> DictSet(lst.vals, cur_idx + 1, lst.vals[1][2]),
                   value |-> lst.value, err |-> "RuntimeError"]
             ELSE Resync(ExtendLoop(lst.vals, second_lst.vals, 1, cur_idx), lst.value)

(***************************************************************************)
(* Numbers (nodes.py).  A Python number is [t, num, den]: an int n is      *)
(* n/1, a float is the rational num/den with den > 0, a bool is 1/1 or    *)
(* 0/1.  Quotients in the model are at least 1e-5 and below 1e16 in       *)
(* magnitude.                                                              *)
(***************************************************************************)
PyInt(n) == [t |-> "int", num |-> n, den |-> 1]

PyFloat(n, d) == [t |-> "float", num |-> n, den |-> d]

PyBool(b) == [t |-> "bool", num |-> IF b THEN 1 ELSE 0, den |-> 1]

Abs(x) == IF x < 0 THEN -x ELSE x

RECURSIVE IntPow(_, _)
IntPow(b, e) == IF e = 0 THEN 1 ELSE b * IntPow(b, e - 1)

\* int(value): truncation toward zero
Trunc(v) == IF v.num >= 0 THEN v.num \div v.den ELSE -((-v.num) \div v.den)

\* '.' in str(value): the repr of a float is in exponent form below 1e-4,
\* and has no '.' there when its mantissa is a single digit (1e-05)
HasDot(v) ==
    /\ v.t = "float"
    /\ \/ v.num = 0
       \/ Abs(v.num) * 10000 >= v.den
       \/ ~\E d \in 1..9, k \in 5..7 : Abs(v.num) * IntPow(10, k) = d * v.den

\* Number.__init__ for a value that is not a Number
Number(value) ==
    [kind |-> "Number", value |-> IF HasDot(value) THEN value ELSE PyInt(Trunc(value))]

Raise(exc) == [kind |-> "raise", exc |-> exc]

\* a quotient with the sign carried by the numerator
Ratio(n, d) == IF d < 0 THEN PyFloat(-n, -d) ELSE PyFloat(n, d)

ArithType(l, r) == IF l.t = "float" \/ r.t = "float" THEN "float" ELSE "int"

NumLt(l, r) == l.num * r.den < r.num * l.den
NumEq(l, r) == l.num * r.den = r.num * l.den
Truthy(v) == v.num /= 0

\* Number.__add__, __sub__, __mul__, __pow__, __truediv__
NumAdd(l, r) == Number([t |-> ArithType(l, r), num |-> l.num * r.den + r.num * l.den, den |-> l.den * r.den])
NumSub(l, r) == Number([t |-> ArithType(l, r), num |-> l.num * r.den - r.num * l.den, den |-> l.den * r.den])
NumMul(l, r) == Number([t |-> ArithType(l, r), num |-> l.num * r.num, den |-> l.den * r.den])
NumDiv(l, r) ==
    IF r.num = 0 THEN Raise("ZeroDivisionError")
    ELSE Number(Ratio(l.num * r.den, l.den * r.num))
NumPow(l, r) ==
    IF r.num >= 0
    THEN Number([t |-> l.t, num |-> IntPow(l.num, r.num), den |-> IntPow(l.den, r.num)])
    ELSE IF l.num = 0 THEN Raise("ZeroDivisionError")
    ELSE Number(Ratio(IntPow(l.den, -r.num), IntPow(l.num, -r.num)))

\* Number.anded_by, ored_by, notted_by
anded_by(l, r) == Number(PyInt(Trunc(IF Truthy(l) THEN r ELSE l)))
ored_by(l, r) == Number(PyInt(Trunc(IF Truthy(l) THEN l ELSE r)))
notted_by(l) == Number(PyInt(IF l.num = 0 THEN 1 ELSE 0))

Token(tt, v) == [token_type |-> tt, value |-> v]

\* visit_BinOpNode, both operands Numbers
NumberBinOp(op, l, r) ==
    CASE op.token_type = "PLUS" -> NumAdd(l, r)
      [] op.token_type = "MINUS" -> NumSub(l, r)
      [] op.token_type = "MULT" -> NumMul(l, r)
      [] op.token_type = "DIV" -> NumDiv(l, r)
      [] op.token_type = "EXP" -> NumPow(l, r)
      [] op.token_type = "N_EQ" -> Number(PyBool(~NumEq(l, r)))
      [] op.token_type = "IS_EQ" -> Number(PyBool(NumEq(l, r)))
      [] op.token_type = "LTE" -> Number(PyBool(~NumLt(r, l)))
      [] op.token_type = "GTE" -> Number(PyBool(~NumLt(l, r)))
      [] op.token_type = "LT" -> Number(PyBool(NumLt(l, r)))
      [] op.token_type = "GT" -> Number(PyBool(NumLt(r, l)))
      [] op.value = "and" -> anded_by(l, r)
      [] op.value = "or" -> ored_by(l, r)
      [] OTHER -> [kind |-> "None"]

\* visit_UnaryOpNode
NumberUnaryOp(op, number) ==
    CASE op.token_type = "MINUS" -> NumMul(number, PyInt(-1))
      [] op.token_type = "PLUS" -> [kind |-> "Number", value |-> number]
      [] op.value = "not" -> notted_by(number)
      [] OTHER -> [kind |-> "None"]

(***************************************************************************)
(* The list specification: two list objects a and b, made by list          *)
(* literals, and the built-ins applied to them in any order.  An           *)
(* exception at the top level ends the program.                            *)
(***************************************************************************)
ListNames == {"a", "b"}
Items == 1..MaxItem

RECURSIVE SeqsUpTo(_, _)
SeqsUpTo(S, n) ==
    IF n = 0 THEN {<<>>}
    ELSE LET shorter == SeqsUpTo(S, n - 1)
         IN  shorter \cup {Append(s, x) : s \in {t \in shorter : Len(t) = n - 1}, x \in S}

Store(l, r) ==
    /\ lists' = [lists EXCEPT ![l] = [vals |-> r.vals, value |-> r.value]]
    /\ listErr' = r.err
    /\ UNCHANGED ListOthers

ListInit ==
    /\ lists \in [ListNames -> {ListLiteral(s) : s \in SeqsUpTo(Items, 2)}
                                 \cup {ListLiteral([i \in 1..MaxListLen |-> 1 + (i % MaxItem)])}]
    /\ listErr = "none"
    /\ ListOthersIdle

Pop(l, idx) ==
    /\ listErr = "none"
    /\ idx \in 0..(Len(lists[l].value) - 1)
    /\ Store(l, ExecPop(lists[l], idx))

AppendItem(l, item) ==
    /\ listErr = "none"
    /\ Len(lists[l].value) < MaxListLen
    /\ Store(l, ExecAppend(lists[l], item))

Extend(l, m) ==
    /\ listErr = "none"
    /\ Len(lists[l].value) + Len(lists[m].value) <= MaxListLen
    /\ Store(l, ExecExtend(lists[l], lists[m], l = m))

ListNext ==
    \/ \E l \in ListNames, idx \in 0..(MaxListLen - 1) : Pop(l, idx)
    \/ \E l \in ListNames, item \in Items : AppendItem(l, item)
    \/ \E l \in ListNames, m \in ListNames : Extend(l, m)

SpecList == ListInit /\ [][ListNext]_vars

\* C1: after any sequence of append, pop and extend calls (each pop with an
\* index in range) the index map of every list has exactly the keys 0..n-1
\* and the linear sequence is the values of the map in ascending key order.
C1_ListContinuity ==
    \A l \in ListNames :
        LET lst == lists[l]
            n == Len(lst.vals)
        IN  /\ DictKeys(lst.vals) = 0..(n - 1)
            /\ Len(lst.value) = n
            /\ \A i \in 0..(n - 1) : lst.value[i + 1] = DictGet(lst.vals, i)
(***************************************************************************)
(* The Number specification: one BinOpNode or UnaryOpNode over Number      *)
(* operands is visited.  Powers take operands in -MaxInt..MaxInt with an   *)
(* integer exponent, and a product has at most one BigInt operand.         *)
(***************************************************************************)
BinOpToks ==
    {Token("PLUS", "+"), Token("MINUS", "-"), Token("MULT", "*"), Token("DIV", "/"),
     Token("EXP", "^"), Token("N_EQ", "!="), Token("IS_EQ", "=="), Token("LTE", "<="),
     Token("GTE", ">="), Token("LT", "<"), Token("GT", ">"),
     Token("KEYWORD", "and"), Token("KEYWORD", "or")}

UnaryOpToks == {Token("PLUS", "+"), Token("MINUS", "-"), Token("KEYWORD", "not")}

SmallInts == {PyInt(n) : n \in (-MaxInt)..MaxInt}
NumOperands == SmallInts \cup {PyInt(BigInt), PyFloat(1, 2), PyFloat(5, 2)}
Absent == [t |-> "absent", num |-> 0, den |-> 1]
Pending == [kind |-> "pending"]

NumInit ==
    /\ NumOthersIdle
    /\ left_node \in NumOperands
    /\ \/ /\ right_node \in NumOperands
          /\ op_tok \in BinOpToks
          /\ op_tok.token_type = "EXP" => left_node \in SmallInts /\ right_node \in SmallInts
          /\ op_tok.token_type = "MULT" => left_node \in SmallInts \/ right_node \in SmallInts
       \/ /\ right_node = Absent
          /\ op_tok \in UnaryOpToks
    /\ numResult = Pending

visit_BinOpNode ==
    /\ numResult = Pending
    /\ right_node /= Absent
    /\ numResult' = NumberBinOp(op_tok, left_node, right_node)
    /\ UNCHANGED <<op_tok, left_node, right_node, NumOthers>>

visit_UnaryOpNode ==
    /\ numResult = Pending
    /\ right_node = Absent
    /\ numResult' = NumberUnaryOp(op_tok, left_node)
    /\ UNCHANGED <<op_tok, left_node, right_node, NumOthers>>

NumNext == visit_BinOpNode \/ visit_UnaryOpNode

SpecNum == NumInit /\ [][NumNext]_vars

IsBoolOp(op) ==
    \/ op.token_type \in {"N_EQ", "IS_EQ", "LTE", "GTE", "LT", "GT"}
    \/ op.value \in {"and", "or", "not"}

\* C3: for all Number operands each of ==, !=, <, <=, >, >=, and, or, not
\* evaluates to exactly Number(0) or Number(1); `and` and `or` of two
\* non-zero integers yield 1, not one of the operands.
C3_BooleanNormalization ==
    (numResult /= Pending /\ IsBoolOp(op_tok)) =>
        numResult \in {[kind |-> "Number", value |-> PyInt(0)],
                       [kind |-> "Number", value |-> PyInt(1)]}

\* C4: for every pair of integer Numbers, +, -, * and ^ (also with a
\* negative exponent) give a Number holding an integer, and / gives a
\* Number holding a float.
C4_NumericClosure ==
    (numResult /= Pending /\ left_node.t = "int" /\ right_node.t = "int") =>
        /\ op_tok.token_type \in {"PLUS", "MINUS", "MULT", "EXP"} =>
               numResult.kind = "Number" /\ numResult.value.t = "int"
        /\ op_tok.token_type = "DIV" =>
               numResult.kind = "Number" /\ numResult.value.t = "float"
(***************************************************************************)
(* The lexer (lexer.py).  A text is a sequence of one-character strings;   *)
(* lexemes (id_str) are strings.                                           *)
(***************************************************************************)
None == "None"
NoneTok == [token_type |-> "None", value |-> ""]

Letters ==
    {"a", "b", "c", "d", "e", "f", "g", "h", "i", "j", "k", "l", "m", "n", "o", "p", "q",
     "r", "s", "t", "u", "v", "w", "x", "y", "z", "A", "B", "C", "D", "E", "F", "G", "H",
     "I", "J", "K", "L", "M", "N", "O", "P", "Q", "R", "S", "T", "U", "V", "W", "X", "Y", "Z"}
Digits == {"0", "1", "2", "3", "4", "5", "6", "7", "8", "9"}
LETTERS_DIGITS == Letters \cup Digits
KEYWORDS == {"define", "cls", "give", "if", "elif", "else", "and", "or", "not", "for", "while"}

\* text.replace('\n\n', '\n'): one left-to-right pass over non-overlapping pairs
RECURSIVE ReplaceNewlines(_, _)
ReplaceNewlines(s, i) ==
    IF i > Len(s) THEN <<>>
    ELSE IF s[i] = "\n" /\ i < Len(s) /\ s[i + 1] = "\n"
         THEN <<"\n">> \o ReplaceNewlines(s, i + 2)
         ELSE <<s[i]>> \o ReplaceNewlines(s, i + 1)

\* advance(): current_char for a position
CharAt(txt, p) == IF p < Len(txt) THEN txt[p + 1] ELSE None

RECURSIVE ScanIdentifier(_, _, _)
ScanIdentifier(txt, p, id_str) ==
    IF CharAt(txt, p) /= None /\ CharAt(txt, p) \in LETTERS_DIGITS \cup {"_"}
    THEN ScanIdentifier(txt, p + 1, id_str \o CharAt(txt, p))
    ELSE [pos |-> p, id_str |-> id_str]

make_identifier(txt, p) ==
    LET r == ScanIdentifier(txt, p, "")
    IN  [pos |-> r.pos, status |-> "run", emit |-> TRUE,
         tok |-> Token(IF r.id_str \in KEYWORDS THEN "KEYWORD" ELSE "IDENTIFIER", r.id_str)]

RECURSIVE ScanNumber(_, _, _, _, _)
ScanNumber(txt, p, id_str, dec_count, last) ==
    LET c == CharAt(txt, p)
        dc == IF c = "." THEN dec_count + 1 ELSE dec_count
    IN  IF c /= None /\ c \in Digits \cup {"."}
        THEN IF dc > 1
             THEN [pos |-> p, id_str |-> id_str, dec_count |-> dc, last |-> last]
             ELSE ScanNumber(txt, p + 1, id_str \o c, dc, c)
        ELSE [pos |-> p, id_str |-> id_str, dec_count |-> dec_count, last |-> last]

make_number(txt, p) ==
    LET first == CharAt(txt, p)
        r == ScanNumber(txt, p + 1, first, 0, first)
        id_str == IF first = "." THEN "0" \o r.id_str
                  ELSE IF r.last = "." THEN r.id_str \o "0"
                  ELSE r.id_str
    IN  [pos |-> r.pos, status |-> "run", emit |-> TRUE,
         tok |-> IF r.dec_count <= 1
                 THEN Token(IF r.dec_count = 0 THEN "INT" ELSE "FLOAT", id_str)
                 ELSE NoneTok]

RECURSIVE ScanString(_, _, _, _)
ScanString(txt, p, character, id_str) ==
    IF CharAt(txt, p) /= None /\ CharAt(txt, p) /= character
    THEN ScanString(txt, p + 1, character, id_str \o CharAt(txt, p))
    ELSE [pos |-> p, id_str |-> id_str]

\* make_string, and the advance() of tokenize past the closing quote
make_string(txt, p) ==
    LET r == ScanString(txt, p + 1, CharAt(txt, p), "")
    IN  [pos |-> r.pos + 1, status |-> "run", emit |-> TRUE, tok |-> Token("STRING", r.id_str)]

SingleOps ==
    [c \in {"+", "-", "*", "/", "^", "(", ")"} |->
        CASE c = "+" -> "PLUS" [] c = "-" -> "MINUS" [] c = "*" -> "MULT" [] c = "/" -> "DIV"
          [] c = "^" -> "EXP" [] c = "(" -> "LPAREN" [] c = ")" -> "RPAREN"]

make_operator(txt, p) ==
    LET c == CharAt(txt, p)
        next == CharAt(txt, p + 1)
        two == [e \in {"=", "<", ">"} |-> IF e = "=" THEN "IS_EQ" ELSE IF e = "<" THEN "LTE" ELSE "GTE"]
        one == [e \in {"=", "<", ">"} |-> IF e = "=" THEN "EQ" ELSE IF e = "<" THEN "LT" ELSE "GT"]
    IN  IF c \in DOMAIN SingleOps
        THEN [pos |-> p + 1, status |-> "run", emit |-> TRUE, tok |-> Token(SingleOps[c], c)]
        ELSE IF c = "!"
        THEN IF next = None
             THEN [pos |-> p + 1, status |-> "TypeError", emit |-> FALSE, tok |-> NoneTok]
             ELSE [pos |-> p + 2, status |-> "run", emit |-> TRUE, tok |-> Token("N_EQ", c \o next)]
        ELSE IF next = None
             THEN [pos |-> p, status |-> "IndexError", emit |-> FALSE, tok |-> NoneTok]
             ELSE IF next = "="
                  THEN [pos |-> p + 2, status |-> "run", emit |-> TRUE, tok |-> Token(two[c], c \o next)]
                  ELSE [pos |-> p + 1, status |-> "run", emit |-> TRUE, tok |-> Token(one[c], c)]

\* the if/elif chain of tokenize, in its order
Branch(c) ==
    CASE c \in {" ", "\t"} -> "blank"
      [] c = "\n" -> "newline"
      [] c \in {"\"", "'"} -> "string"
      [] c = "," -> "separator"
      [] c \in {"+", "-", "/", "*", "^", "(", ")", "!", "=", "<", ">"} -> "operator"
      [] c = "{" -> "block_open"
      [] c = "}" -> "block_close"
      [] c \in Digits \cup {"."} -> "number"
      [] c \in LETTERS_DIGITS \cup {"_"} -> "identifier"
      [] OTHER -> "none"

\* self.advance() alone, and tokens.append(Token(...)) followed by self.advance()
Skip(p) == [pos |-> p + 1, status |-> "run", tok |-> NoneTok, emit |-> FALSE]
EmitDropped(p, tok) == [pos |-> p + 1, status |-> "run", tok |-> tok, emit |-> FALSE]
Emit(p, tok) == [pos |-> p + 1, status |-> "run", tok |-> tok, emit |-> TRUE]

\* one iteration of the while loop of tokenize: the new pos, the token
\* appended (emit) and whether an exception was raised
LoopBody(txt, p) ==
    LET b == Branch(CharAt(txt, p))
        r == CASE b = "blank" -> Skip(p)
               [] b = "newline" -> Emit(p, Token("NEWLINE", "\n"))
               [] b = "string" -> make_string(txt, p)
               [] b = "separator" -> Emit(p, Token("SEPARATOR", ","))
               [] b = "operator" -> make_operator(txt, p)
               [] b = "block_open" -> Emit(p, Token("BLOCK_OPEN", "{"))
               [] b = "block_close" -> Emit(p, Token("BLOCK_CLOSE", "}"))
               [] b = "number" -> make_number(txt, p)
               [] b = "identifier" -> make_identifier(txt, p)
               [] OTHER -> [pos |-> p, status |-> "run", tok |-> NoneTok, emit |-> FALSE]
    IN  [pos |-> r.pos, status |-> r.status, tok |-> r.tok,
         emit |-> r.emit]

(***************************************************************************)
(* The lexer specification: Lexer(source).tokenize() for every text of up  *)
(* to MaxTextLen characters of Alphabet, and for the sample texts.         *)
(***************************************************************************)
Alphabet == {" ", "\n", "\"", ",", "=", "!", "{", "}", "1", ".", "a", "#"}

Words ==
    {<<"d", "e", "f", "i", "n", "e">>, <<"c", "l", "s">>, <<"g", "i", "v", "e">>,
     <<"i", "f">>, <<"e", "l", "i", "f">>, <<"e", "l", "s", "e">>, <<"a", "n", "d">>,
     <<"o", "r">>, <<"n", "o", "t">>, <<"f", "o", "r">>, <<"w", "h", "i", "l", "e">>,
     <<"r", "e", "t", "u", "r", "n">>, <<"o", "b", "j", "e", "c", "t">>,
     <<"x">>, <<"i", "f", "_", "1">>, <<"r", "e", "t", "u", "r", "n", "s">>,
     <<"p", "r", "i", "n", "t">>}

SampleTexts ==
    Words \cup {w \o <<"\n">> : w \in Words}
          \cup {<<"\"", "\n", "\"", "\n">>, <<"1", ".", "2", ".", "3">>,
                <<"a", "\n", "\n", "\n", "a">>, <<"a", "\n", "\n", "\n", "\n", "a">>}

current_char == CharAt(text, pos)

LexInit ==
    /\ LexOthersIdle
    /\ source \in SeqsUpTo(Alphabet, MaxTextLen) \cup SampleTexts
    /\ text = ReplaceNewlines(source, 1)
    /\ pos = 0
    /\ tokens = <<>>
    /\ lexStatus = "run"

LexAct(branch) ==
    /\ lexStatus = "run"
    /\ current_char /= None
    /\ Branch(current_char) = branch
    /\ LET r == LoopBody(text, pos)
       IN  /\ pos' = r.pos
           /\ tokens' = IF r.emit THEN Append(tokens, r.tok) ELSE tokens
           /\ lexStatus' = r.status
    /\ UNCHANGED <<source, text, LexOthers>>

SkipBlank == LexAct("blank")
EmitNewline == LexAct("newline")
MakeString == LexAct("string")
EmitSeparator == LexAct("separator")
MakeOperator == LexAct("operator")
EmitBlockOpen == LexAct("block_open")
EmitBlockClose == LexAct("block_close")
MakeNumber == LexAct("number")
MakeIdentifier == LexAct("identifier")
\* no branch of the chain matches: the loop runs again on the same character
NoBranch == LexAct("none")

ReturnTokens ==
    /\ lexStatus = "run"
    /\ current_char = None
    /\ lexStatus' = "done"
    /\ UNCHANGED <<source, text, pos, tokens, LexOthers>>

LexNext ==
    \/ SkipBlank \/ EmitNewline \/ MakeString \/ EmitSeparator \/ MakeOperator
    \/ EmitBlockOpen \/ EmitBlockClose \/ MakeNumber \/ MakeIdentifier
    \/ NoBranch \/ ReturnTokens

SpecLex == LexInit /\ [][LexNext]_vars

\* C5: for every input text tokenize terminates: every iteration of its loop
\* either moves the cursor forward or stops lexing with an error (for a
\* character outside the dispatch table, an error naming it).
C5_TokenizeTerminates ==
    (lexStatus = "run" /\ current_char /= None) =>
        LET r == LoopBody(text, pos)
        IN  r.pos > pos \/ r.status /= "run"
\* the quote that is open after the first i characters of txt, or None
RECURSIVE OpenQuote(_, _)
OpenQuote(txt, i) ==
    IF i = 0 THEN None
    ELSE LET q == OpenQuote(txt, i - 1)
         IN  IF q = None THEN (IF txt[i] \in {"\"", "'"} THEN txt[i] ELSE None)
             ELSE IF txt[i] = q THEN None ELSE q

Outside(txt) == {i \in 1..Len(txt) : OpenQuote(txt, i - 1) = None}

\* a legal input: every string literal is closed, and outside string literals
\* every character is in the dispatch table, every `!` is followed by `=`,
\* and no `=`, `<` or `>` ends the text
Legal(txt) ==
    /\ OpenQuote(txt, Len(txt)) = None
    /\ \A i \in Outside(txt) :
           /\ Branch(txt[i]) /= "none"
           /\ txt[i] = "!" => CharAt(txt, i) = "="
           /\ txt[i] \in {"=", "<", ">"} => i < Len(txt)

NewlineTokens == Cardinality({i \in 1..Len(tokens) : tokens[i].token_type = "NEWLINE"})

C24_NumberTokens ==
    [][MakeNumber =>
           LET lexeme == SubSeq(text, pos + 1, pos')
               points == Cardinality({i \in 1..Len(lexeme) : lexeme[i] = "."})
           IN  /\ Len(tokens') = Len(tokens) + 1
               /\ points <= 1
               /\ tokens'[Len(tokens')].token_type = IF points = 0 THEN "INT" ELSE "FLOAT"]_vars

\* the runs of newline characters outside string literals: the newlines
\* that do not follow another one
NewlineRuns(txt) ==
    Cardinality({i \in Outside(txt) :
                    /\ txt[i] = "\n"
                    /\ ~(i > 1 /\ txt[i - 1] = "\n" /\ (i - 1) \in Outside(txt))})

\* C25: for every run of two or more consecutive newline characters of the
\* source text outside string literals, runs of three and more included,
\* the lexer emits exactly one NEWLINE token: the tokens returned for a
\* legal source hold as many NEWLINE tokens as the source has runs of
\* newlines.
C25_OneNewlinePerRun ==
    (lexStatus = "done" /\ Legal(source)) => NewlineTokens = NewlineRuns(source)

SpecKeywords ==
    {"define", "cls", "give", "if", "elif", "else", "and", "or", "not", "for", "while",
     "return", "object"}

\* C7: the identifier scanner emits a KEYWORD token for each of the thirteen
\* lexemes define, cls, give, if, elif, else, and, or, not, for, while,
\* return, object, and an IDENTIFIER token for every other lexeme.
C7_KeywordTokens ==
    \A i \in 1..Len(tokens) :
        tokens[i].token_type \in {"KEYWORD", "IDENTIFIER"} =>
            (tokens[i].token_type = "KEYWORD" <=> tokens[i].value \in SpecKeywords)

(***************************************************************************)
(* The parser (lang_parser.py): expr, term, pow and factor over a token    *)
(* list.  A call returns the position reached, Parser.called, the node     *)
(* built and the exception raised ("none" when it returns).                *)
(***************************************************************************)
\* the members of the TokenType enum
TokenType ==
    {"IDENTIFIER", "KEYWORD", "BLOCK_OPEN", "BLOCK_CLOSE", "METHOD", "EQ", "INT", "FLOAT",
     "PLUS", "MINUS", "MULT", "DIV", "EXP", "NEWLINE", "LPAREN", "RPAREN", "SEPARATOR",
     "STRING", "IS_EQ", "N_EQ", "GT", "LT", "LTE", "GTE", "ACCESS"}

NoneNode == [node |-> "None"]
NumberNode(tok) == [node |-> "NumberNode", tok |-> tok]
IfNode(cases, else_case) == [node |-> "IfNode", cases |-> cases, else_case |-> else_case]
StringNode(tok) == [node |-> "StringNode", tok |-> tok]
BinOpNode(l, op, r) ==
    [node |-> "BinOpNode", left_node |-> l, op_tok |-> op, right_node |-> r]
UnaryOpNode(op, n) == [node |-> "UnaryOpNode", op_tok |-> op, operand |-> n]

\* Parser.current_tok when Parser.pos = p
TokAt(toks, p) == IF p < Len(toks) THEN toks[p + 1] ELSE NoneTok

Returned(p, c, n) == [pos |-> p, called |-> c, node |-> n, exc |-> "none"]
Raised(p, c, e) == [pos |-> p, called |-> c, node |-> NoneNode, exc |-> e]

\* the operator tokens the loop of expr (1), term (2) and pow (3) consumes
LoopOps(level) ==
    CASE level = 1 -> {"PLUS", "MINUS"}
      [] level = 2 -> {"MULT", "DIV"}
      [] level = 3 -> {"EXP"}

RECURSIVE expr(_, _, _), term(_, _, _), pow(_, _, _), factor(_, _, _), BinOpLoop(_, _, _)
RECURSIVE LogicalLoop(_, _, _, _, _, _), BlockLoop(_, _, _, _), if_expr(_, _, _, _)

\* line 141: the member factor looks up in TokenType.  The enum lacks it, and
\* the AttributeError raised there carries this name as its text
MissingMember == "LIST"

\* the tokens of the inputs are the brackets, NEWLINE, SEPARATOR, EQ, IS_EQ,
\* INT, the five arithmetic operators and the keywords if, elif, else, and,
\* or: no other KEYWORD (lines 101-124) and no IDENTIFIER (lines 179-200)
factor(toks, p, c) ==
    LET token == TokAt(toks, p) IN
    IF token = NoneTok THEN Returned(p, FALSE, NoneNode)
    ELSE IF token.token_type = "KEYWORD" /\ token.value = "if" THEN if_expr(toks, p + 1, c, TRUE)
    ELSE IF token.token_type = "LPAREN"
    THEN LET r == expr(toks, p + 1, c) IN
         IF r.exc /= "none" THEN r ELSE [r EXCEPT !.pos = r.pos + 1]
    ELSE IF token.token_type = "BLOCK_CLOSE" THEN Returned(p + 1, FALSE, NoneNode)
    ELSE IF MissingMember \notin TokenType THEN Raised(p, c, "AttributeError")
    ELSE IF token.token_type = "STRING" THEN Returned(p + 1, c, StringNode(token))
    ELSE IF token.token_type \in {"INT", "FLOAT"} THEN Returned(p + 1, c, NumberNode(token))
    ELSE IF token.token_type \in {"PLUS", "MINUS"} \/ token.value = "not"
    THEN LET r == factor(toks, p + 1, c) IN
         IF r.exc /= "none" THEN r ELSE [r EXCEPT !.node = UnaryOpNode(token, r.node)]
    ELSE IF "SLICE" \notin TokenType THEN Raised(p, c, "AttributeError")
    ELSE Returned(p, FALSE, NoneNode)

\* while current_tok is an operator of the level: result = BinOpNode(result, symbol, operand)
BinOpLoop(toks, r, level) ==
    IF r.exc /= "none" \/ TokAt(toks, r.pos).token_type \notin LoopOps(level) THEN r
    ELSE LET symbol == TokAt(toks, r.pos)
             right == IF level = 1 THEN term(toks, r.pos + 1, r.called)
                      ELSE IF level = 2 THEN pow(toks, r.pos + 1, r.called)
                      ELSE factor(toks, r.pos + 1, r.called)
         IN  IF right.exc /= "none" THEN right
             ELSE BinOpLoop(toks, [right EXCEPT !.node = BinOpNode(r.node, symbol, right.node)],
                            level)

\* lines 355-366, after factor has returned r inside the loop of
\* logical_expr: the result joins conditions, and append_to_cases takes
\* BinOpNode(conditions[-2], keyword, conditions[-1]) after and/or,
\* UnaryOpNode after not, the result itself when neither and nor or follows
LogicalStep(toks, r, keyword, conditions, append_to_cases) ==
    LET conds == Append(conditions, r.node)
        last == conds[Len(conds)]
        after == TokAt(toks, r.pos)
        appended ==
            IF keyword /= NoneTok
            THEN IF keyword.value = "not" THEN <<UnaryOpNode(keyword, last)>>
                 ELSE <<BinOpNode(conds[Len(conds) - 1], keyword, last)>>
            ELSE IF after.value \notin {"and", "or"} THEN <<last>>
            ELSE <<>>
    IN  IF r.exc /= "none" THEN r
        ELSE IF keyword /= NoneTok /\ keyword.value /= "not" /\ Len(conds) < 2
        THEN Raised(r.pos, r.called, "IndexError")
        ELSE IF after = NoneTok THEN Raised(r.pos, r.called, "AttributeError")
        ELSE LogicalLoop(toks, r.pos, r.called, NoneTok, conds, append_to_cases \o appended)

\* the while loop of logical_expr (lines 313-366) from position p on.  The
\* conditions of the inputs hold the words and, or and tokens that factor
\* takes: no operator, no parenthesis (lines 318-343 and 346-352).  keyword is
\* the and/or/not token read last, NoneTok for (False, None)
LogicalLoop(toks, p, c, keyword, conditions, append_to_cases) ==
    LET tok == TokAt(toks, p) IN
    IF tok = NoneTok THEN Raised(p, c, "AttributeError")
    ELSE IF tok.token_type \in {"BLOCK_OPEN", "NEWLINE"}
    THEN [pos |-> p, called |-> c, node |-> append_to_cases, exc |-> "none"]
    ELSE IF tok.value \in {"and", "or", "not"}
    THEN LogicalLoop(toks, p + 1, c, tok, conditions, append_to_cases)
    ELSE LogicalStep(toks, factor(toks, p, c), keyword, conditions, append_to_cases)

\* lines 373-375 and 446-448, after expr has returned r inside the loop of a
\* block: a NEWLINE is skipped and the result joins expr_results
BlockStep(toks, r, expr_results) ==
    LET after == TokAt(toks, r.pos) IN
    IF r.exc /= "none" THEN r
    ELSE IF after = NoneTok THEN Raised(r.pos, r.called, "AttributeError")
    ELSE BlockLoop(toks, IF after.token_type = "NEWLINE" THEN r.pos + 1 ELSE r.pos,
                   r.called, Append(expr_results, r.node))

\* while current_tok is not BLOCK_CLOSE: result = expr() (lines 371-375 and 444-448)
BlockLoop(toks, p, c, expr_results) ==
    LET tok == TokAt(toks, p) IN
    IF tok = NoneTok THEN Raised(p, c, "AttributeError")
    ELSE IF tok.token_type = "BLOCK_CLOSE"
    THEN [pos |-> p, called |-> c, node |-> expr_results, exc |-> "none"]
    ELSE BlockStep(toks, expr(toks, p, c), expr_results)

\* line 376: cases.append((append_to_cases, expr_results)), b the outcome of the block
CaseOf(append_to_cases, b) ==
    IF b.exc /= "none" THEN b
    ELSE [b EXCEPT !.node = <<[condition |-> append_to_cases, expr |-> b.node]>>]

\* lines 368-376, l the outcome of the loop over the conditions
LogicalBlock(toks, l) ==
    IF l.exc /= "none" THEN l
    ELSE CaseOf(l.node, BlockLoop(toks, l.pos + 1, l.called, <<>>))

\* logical_expr(block=True): the list of the one case (conditions, body)
logical_expr(toks, p, c) == LogicalBlock(toks, LogicalLoop(toks, p, c, NoneTok, <<>>, <<>>))

\* self.advance() on an outcome that did not raise
Advanced(r) == IF r.exc /= "none" THEN r ELSE [r EXCEPT !.pos = r.pos + 1]

\* lines 450-455: IfNode(cases, else_case) for the outer call, cases for an
\* elif arm; an absent else case and an empty one are both <<>>
IfReturn(cases, else_results, main_func) ==
    IF else_results.exc /= "none" THEN else_results
    ELSE Returned(else_results.pos, else_results.called,
                  IF main_func THEN IfNode(cases, else_results.node) ELSE cases)

\* lines 437-449, rest the outcome of the elif arms (no case when there is
\* none).  cases.append(*result) takes the one element of result and raises
\* TypeError when result has more
IfElse(toks, cases, rest, main_func) ==
    IF rest.exc /= "none" THEN rest
    ELSE IF Len(rest.node) > 1 THEN Raised(rest.pos, FALSE, "TypeError")
    ELSE IfReturn(cases \o rest.node,
                  IF main_func /\ TokAt(toks, rest.pos).value = "else"
                  THEN Advanced(BlockLoop(toks, rest.pos + 3, FALSE, <<>>))
                  ELSE Returned(rest.pos, FALSE, <<>>),
                  main_func)

\* lines 428-436, first the outcome of logical_expr
IfElif(toks, first, main_func) ==
    LET p1 == first.pos + 1
        p2 == IF TokAt(toks, p1).token_type = "NEWLINE" THEN p1 + 1 ELSE p1
    IN  IF first.exc /= "none" THEN first
        ELSE IF TokAt(toks, p1) = NoneTok THEN Raised(p1, FALSE, "AttributeError")
        ELSE IfElse(toks, first.node,
                    IF TokAt(toks, p2).value = "elif" THEN if_expr(toks, p2 + 1, FALSE, FALSE)
                    ELSE Returned(p2, FALSE, <<>>),
                    main_func)

\* if_expr (lines 423-455)
if_expr(toks, p, c, main_func) == IfElif(toks, logical_expr(toks, p, TRUE), main_func)

pow(toks, p, c) == BinOpLoop(toks, factor(toks, p, c), 3)

term(toks, p, c) == BinOpLoop(toks, pow(toks, p, c), 2)

expr(toks, p, c) == BinOpLoop(toks, term(toks, p, c), 1)

(***************************************************************************)
(* Parser.parse over token lists: the arithmetic expressions of up to      *)
(* MaxOperators operators, with or without the NEWLINE main.py appends,    *)
(* and the short lists of brackets, operators and newlines.                *)
(***************************************************************************)
ArithOps ==
    {Token("PLUS", "+"), Token("MINUS", "-"), Token("MULT", "*"), Token("DIV", "/"),
     Token("EXP", "^")}
IntToks == {Token("INT", "1"), Token("INT", "2"), Token("INT", "3")}
NewlineTok == Token("NEWLINE", "\n")

RECURSIVE ArithSeqs(_)
ArithSeqs(n) ==
    IF n = 0 THEN {<<t>> : t \in IntToks}
    ELSE ArithSeqs(n - 1)
         \cup {e \o <<o, t>> : e \in ArithSeqs(n - 1), o \in ArithOps, t \in IntToks}

\* the tokens no branch of factor handles at the start of a statement
StrayToks ==
    {Token("RPAREN", ")"), Token("SEPARATOR", ","), Token("EQ", "="), Token("IS_EQ", "==")}

\* an if statement with k elif arms: every condition is cond, the body of arm
\* j is empty or the number j, the else arm opens on a new line
Keyword(word) == Token("KEYWORD", word)
IfConds == {<<>>, <<Token("INT", "1")>>, <<Token("INT", "1"), Keyword("or"), Token("INT", "0")>>}
Arm(word, cond, body) ==
    <<Keyword(word)>> \o cond \o <<Token("BLOCK_OPEN", "{")>> \o body
    \o <<Token("BLOCK_CLOSE", "}")>>
ArmBody(j, filled) == IF filled THEN <<Token("INT", ToString(j))>> ELSE <<>>
RECURSIVE ElifArms(_, _, _)
ElifArms(k, cond, filled) ==
    IF k = 0 THEN <<>>
    ELSE ElifArms(k - 1, cond, filled) \o Arm("elif", cond, ArmBody(k + 1, filled))
ElseArm ==
    <<Keyword("else"), Token("BLOCK_OPEN", "{"), NewlineTok, Token("BLOCK_CLOSE", "}")>>
IfStatement(k, cond, filled, with_else) ==
    Arm("if", cond, ArmBody(1, filled)) \o ElifArms(k, cond, filled)
    \o (IF with_else THEN ElseArm ELSE <<>>) \o <<NewlineTok>>
IfInputs ==
    {IfStatement(k, cond, filled, with_else) :
        k \in 0..MaxElifs, cond \in IfConds, filled \in BOOLEAN, with_else \in BOOLEAN}

ParseInputs ==
    ArithSeqs(MaxOperators) \cup {e \o <<NewlineTok>> : e \in ArithSeqs(MaxOperators)}
    \cup SeqsUpTo({Token("BLOCK_CLOSE", "}"), Token("LPAREN", "("), Token("PLUS", "+"),
                   Token("EXP", "^"), NewlineTok} \cup StrayToks, 3)
    \cup IfInputs

ParseInit ==
    /\ ParseOthersIdle
    /\ parser_tokens \in ParseInputs
    /\ parser_pos = 0
    /\ called = FALSE
    /\ parsing_result = <<>>
    /\ parseStatus = "start"

\* lines 34-35: no token at all, parse returns None
ParseReturnNone ==
    /\ parseStatus = "start"
    /\ TokAt(parser_tokens, parser_pos) = NoneTok
    /\ parseStatus' = "returned None"
    /\ UNCHANGED <<parser_tokens, parser_pos, called, parsing_result, ParseOthers>>

\* lines 37-45: one iteration of the while loop of parse
ParseStatement ==
    /\ parseStatus \in {"start", "run"}
    /\ TokAt(parser_tokens, parser_pos) /= NoneTok
    /\ LET r == expr(parser_tokens, parser_pos, called)
           after == TokAt(parser_tokens, r.pos)
       IN  /\ called' = r.called
           /\ IF r.exc /= "none"
              THEN /\ parseStatus' = r.exc
                   /\ UNCHANGED <<parser_pos, parsing_result>>
              ELSE IF after = NoneTok
              THEN /\ parsing_result' = Append(parsing_result, r.node)
                   /\ parser_pos' = r.pos
                   /\ parseStatus' = "done"
              ELSE /\ parsing_result' = IF r.node /= NoneNode
                                        THEN Append(parsing_result, r.node)
                                        ELSE parsing_result
                   /\ parser_pos' = IF after.token_type = "NEWLINE" THEN r.pos + 1 ELSE r.pos
                   /\ parseStatus' = "run"
    /\ UNCHANGED <<parser_tokens, ParseOthers>>

\* lines 37 and 47: the loop ends after a consumed NEWLINE, parse returns the list
ParseReturn ==
    /\ parseStatus = "run"
    /\ TokAt(parser_tokens, parser_pos) = NoneTok
    /\ parseStatus' = "done"
    /\ UNCHANGED <<parser_tokens, parser_pos, called, parsing_result, ParseOthers>>

ParseNext == ParseReturnNone \/ ParseStatement \/ ParseReturn

SpecParse == ParseInit /\ [][ParseNext]_vars

\* the tokens of an arithmetic expression over number literals without
\* parentheses, the trailing NEWLINE dropped
Expression(toks) ==
    IF Len(toks) > 0 /\ toks[Len(toks)] = NewlineTok THEN SubSeq(toks, 1, Len(toks) - 1)
    ELSE toks

IsArithmetic(toks) == Expression(toks) \in ArithSeqs(MaxOperators)

BindingLevel(op) == CHOOSE level \in 1..3 : op.token_type \in LoopOps(level)

RECURSIVE InOrder(_)
InOrder(n) ==
    IF n.node = "BinOpNode" THEN InOrder(n.left_node) \o <<n.op_tok>> \o InOrder(n.right_node)
    ELSE IF n.node = "NumberNode" THEN <<n.tok>>
    ELSE <<n>>

\* every operator's right operand binds strictly tighter than the operator,
\* its left operand at least as tight
RECURSIVE PrecedenceShaped(_)
PrecedenceShaped(n) ==
    \/ n.node = "NumberNode"
    \/ /\ n.node = "BinOpNode"
       /\ PrecedenceShaped(n.left_node)
       /\ PrecedenceShaped(n.right_node)
       /\ n.left_node.node = "BinOpNode" =>
              BindingLevel(n.left_node.op_tok) >= BindingLevel(n.op_tok)
       /\ n.right_node.node = "BinOpNode" =>
              BindingLevel(n.right_node.op_tok) > BindingLevel(n.op_tok)

\* int(value) of the digits of a literal
IntOfString(str) == CHOOSE d \in 0..MaxLiteral : ToString(d) = str

\* the value of a tree of NumberNodes and BinOpNodes
RECURSIVE TreeValue(_)
TreeValue(n) ==
    IF n.node = "NumberNode" THEN Number(PyInt(IntOfString(n.tok.value)))
    ELSE LET l == TreeValue(n.left_node)
             r == TreeValue(n.right_node)
         IN  IF l.kind = "raise" THEN l
             ELSE IF r.kind = "raise" THEN r
             ELSE NumberBinOp(n.op_tok, l.value, r.value)

OnePlusTwoTimesThree ==
    <<Token("INT", "1"), Token("PLUS", "+"), Token("INT", "2"), Token("MULT", "*"),
      Token("INT", "3")>>

\* C8: for every arithmetic expression over number literals without
\* parentheses, parse raises nothing and returns one tree that holds the
\* tokens in order, in which ^ binds tighter than * and /, which bind tighter
\* than + and -, and operators of one level associate to the left; the tree
\* of 1 + 2 * 3 evaluates to 7.
\* C22: every statement parse reads moves on or ends parsing, and a token that
\* cannot start a factor at the start of a statement (RPAREN, SEPARATOR, EQ,
\* IS_EQ) ends parsing with an error whose text identifies that token
C22_UnexpectedTokenError ==
    [][ParseStatement =>
          LET tok == TokAt(parser_tokens, parser_pos) IN
          /\ parser_pos' > parser_pos \/ parseStatus' \notin {"start", "run"}
          /\ (tok \in StrayToks =>
                /\ parseStatus' \notin {"start", "run", "done"}
                /\ MissingMember \in {tok.token_type, tok.value})]_vars

\* C23: an if statement with k elif arms parses to one IfNode whose cases list
\* holds k + 1 (conditions, body) pairs in source order: the body of case j
\* is the body of arm j
C23_ElifCases ==
    \A k \in 0..MaxElifs, cond \in IfConds, filled \in BOOLEAN, with_else \in BOOLEAN :
        (parser_tokens = IfStatement(k, cond, filled, with_else)
         /\ parseStatus \notin {"start", "run"}) =>
            /\ parseStatus = "done"
            /\ Len(parsing_result) = 1
            /\ parsing_result[1].node = "IfNode"
            /\ Len(parsing_result[1].cases) = k + 1
            /\ \A j \in 1..(k + 1) :
                  parsing_result[1].cases[j].expr
                      = [i \in 1..Len(ArmBody(j, filled)) |-> NumberNode(ArmBody(j, filled)[i])]

C8_ArithmeticPrecedence ==
    IsArithmetic(parser_tokens) =>
        /\ parseStatus \in {"start", "run", "done"}
        /\ parseStatus = "done" =>
               /\ Len(parsing_result) = 1
               /\ InOrder(parsing_result[1]) = Expression(parser_tokens)
               /\ PrecedenceShaped(parsing_result[1])
               /\ Expression(parser_tokens) = OnePlusTwoTimesThree =>
                      TreeValue(parsing_result[1]) = Number(PyInt(7))

(***************************************************************************)
(* The interpreter (lang_interpreter.py) over the trees of nodes.py.  The  *)
(* interpreter's memory st is [tables, params]: tables maps "root" and     *)
(* each function name (the FunctionNode's one local_symbol_table) to a     *)
(* dict, params holds the params list of each call node that a visit       *)
(* reassigned.  A visit returns [st, val, exc], exc "none" when it         *)
(* returns val and the exception's name when it raises.  The trees hold    *)
(* numbers, variables, print, functions without an inst parameter, for,    *)
(* while and if; strings, lists and objects are not among them.            *)
(***************************************************************************)
VarAssignNode(name, value) == [node |-> "VarAssignNode", name |-> name, value |-> value]
VarAccessNode(name) == [node |-> "VarAccessNode", name |-> name]
ReturnNode(expression) == [node |-> "ReturnNode", expression |-> expression]
ForNode(var_name, end_value, step_value, body) ==
    [node |-> "ForNode", var_name |-> var_name, start_value |-> var_name.value,
     end_value |-> end_value, step_value |-> step_value, body |-> body]
WhileNode(cond, body) == [node |-> "WhileNode", cond |-> cond, body |-> body]
FunctionNode(func_name, params, body) ==
    [node |-> "FunctionNode", func_name |-> func_name, params |-> params, body |-> body,
     local_symbol_table |-> func_name]
\* the FunctionNode of a method of class cls, with a local table of its own
MethodNode(cls, func_name, params, body) ==
    [node |-> "FunctionNode", func_name |-> func_name, params |-> params, body |-> body,
     local_symbol_table |-> cls \o "." \o func_name]
AccessNode(accessor, item_to_access) ==
    [node |-> "AccessNode", accessor |-> accessor, item_to_access |-> item_to_access]
\* methods and special_methods are dicts from name to FunctionNode
ObjectNode(name, methods, special_methods, symbol_table, global_attrs, inherit) ==
    [node |-> "ObjectNode", name |-> name, methods |-> methods,
     special_methods |-> special_methods, class_attrs |-> global_attrs,
     local_symbol_table |-> symbol_table, inherit |-> inherit]
FunctionCallNode(id, func_name, params) ==
    [node |-> "FunctionCallNode", id |-> id, func_name |-> func_name, params |-> params]
ExecuteBuiltInsNode(id, name, params) ==
    [node |-> "ExecuteBuiltInsNode", id |-> id, name |-> name, params |-> params]
\* a Python list of nodes or of values
PyList(items) == [kind |-> "list", items |-> items]
PyNone == [kind |-> "None"]
PyTuple(items) == [kind |-> "tuple", items |-> items]
PyDict(items) == [kind |-> "dict", items |-> items]
\* a reference to the SymbolTable object id
SymbolTable(id) == [kind |-> "SymbolTable", id |-> id]
\* the key None of a dict
NoneKey == "<None>"

\* type(node).__name__
Class(v) ==
    IF "node" \in DOMAIN v THEN v.node
    ELSE IF "vals" \in DOMAIN v THEN "List"
    ELSE v.kind

\* String.__init__ (the dict of characters, vals, is left out)
String(value) == [kind |-> "String", value |-> value]

\* ListNode.__init__: the mapping {0: e0, 1: e1, ...} of element nodes
ListNode(elements) ==
    [node |-> "ListNode", list |-> [i \in 1..Len(elements) |-> <<i - 1, elements[i]>>]]

\* the value of a FLOAT token
FloatOfString(str) == CHOOSE f \in {PyFloat(3, 2)} : str = "1.5"

\* the strings of the trees in str order
StringValues == <<"a", "b">>
StrLt(a, b) ==
    \E i, j \in 1..Len(StringValues) : i < j /\ StringValues[i] = a /\ StringValues[j] = b

\* str * n
RECURSIVE Repeat(_, _)
Repeat(str, n) == IF n <= 0 THEN "" ELSE str \o Repeat(str, n - 1)

\* the objects that have a value attribute
HasValue(v) == Class(v) \in {"Number", "String", "List"}

\* isinstance(v.value, int)
IsInt(v) == Class(v) = "Number" /\ v.value.t \in {"int", "bool"}

\* x == y of two elements inside the dict comparison: Number.__eq__,
\* String.__eq__ and List.__eq__ return a Number object, and an object
\* of a class without __bool__ and __len__ is true, whatever its value
ElemEq(x, y) == x = y \/ HasValue(x)

\* self.vals == other.vals of two dicts
DictEq(a, b) ==
    /\ Len(a) = Len(b)
    /\ \A i \in 1..Len(a) : HasKey(b, a[i][1]) /\ ElemEq(a[i][2], DictGet(b, a[i][1]))

\* visit_BinOpNode lines 320-380 on the two operands' values; the result
\* is the value returned, PyNone where no return is reached, or Raise
BinOp(op, l, r) ==
    IF Class(l) = "Number" /\ Class(r) = "Number"
    THEN NumberBinOp(op, l.value, r.value)
    ELSE IF Class(l) = "String" /\ Class(r) = "String"
    THEN CASE op.token_type = "PLUS" -> String(l.value \o r.value)
           [] op.token_type = "MINUS" -> Raise("TypeError")
           [] op.token_type = "N_EQ" -> Number(PyBool(l.value /= r.value))
           [] op.token_type = "IS_EQ" -> Number(PyBool(l.value = r.value))
           [] op.token_type = "LTE" -> Number(PyBool(~StrLt(r.value, l.value)))
           [] op.token_type = "GTE" -> Number(PyBool(~StrLt(l.value, r.value)))
           [] op.token_type = "LT" -> Number(PyBool(StrLt(l.value, r.value)))
           [] op.token_type = "GT" -> Number(PyBool(StrLt(r.value, l.value)))
           [] OTHER -> PyNone
    ELSE IF (Class(l) = "String" /\ ~HasValue(r)) \/
            (Class(l) /= "String" /\ Class(r) = "String" /\ ~HasValue(l))
    THEN Raise("AttributeError")
    ELSE IF (Class(l) = "String" /\ IsInt(r)) \/ (Class(r) = "String" /\ IsInt(l))
    THEN IF op.token_type /= "MULT" THEN PyNone
         ELSE IF Class(l) = "String" THEN String(Repeat(l.value, r.value.num))
         ELSE Raise("TypeError")
    ELSE IF Class(l) = "List" /\ Class(r) = "List"
    THEN CASE op.token_type = "N_EQ" -> Number(PyBool(~DictEq(l.vals, r.vals)))
           [] op.token_type = "IS_EQ" -> Number(PyBool(DictEq(l.vals, r.vals)))
           [] OTHER -> PyNone
    ELSE Number(PyInt(0))

Ok(st, v) == [st |-> st, val |-> v, exc |-> "none"]
Err(st, e) == [st |-> st, val |-> PyNone, exc |-> e]

\* SymbolTable.__setitem__ on the table tid
SetItem(st, tid, key, v) == [st EXCEPT !.tables[tid] = DictSet(@, key, v)]

\* some condition of the case passed
AnyPassed(passed_cases) ==
    \E i \in 1..Len(passed_cases) : NumEq(passed_cases[i].value, PyInt(1))

\* [num.value == 1 for num in passed_cases] holds no False
AllPassed(passed_cases) ==
    \A i \in 1..Len(passed_cases) : NumEq(passed_cases[i].value, PyInt(1))

visit_VarAccessNode(node, tid, st) ==
    IF HasKey(st.tables[tid], node.name) THEN Ok(st, DictGet(st.tables[tid], node.name))
    ELSE IF HasKey(st.tables[tid], "params")
    THEN IF HasKey(DictGet(st.tables[tid], "params"), node.name)
         THEN Ok(st, DictGet(DictGet(st.tables[tid], "params"), node.name))
         ELSE Err(st, "KeyError")
    ELSE IF tid /= "root"
    THEN IF HasKey(st.tables["root"], node.name)
         THEN Ok(st, DictGet(st.tables["root"], node.name))
         ELSE Err(st, "KeyError")
    ELSE Err(st, "UnboundLocalError")

\* lines 209-215: for param, name_of_param in zip(node.params, func.params)
RECURSIVE BindParams(_, _, _, _)
BindParams(st, func, params, j) ==
    IF j > Len(params) \/ j > Len(func.params) THEN Ok(st, PyNone)
    ELSE LET local == func.local_symbol_table
             name == func.params[j]
         IN  IF HasKey(st.tables[local], "inst")
             THEN LET inst == DictGet(st.tables[local], "inst").id IN
                  IF ~HasKey(st.tables[inst], "params") THEN Err(st, "KeyError")
                  ELSE LET bound == SetItem(st, inst, "params",
                                            DictSet(DictGet(st.tables[inst], "params"),
                                                    name, params[j]))
                       IN  BindParams(IF name /= "inst" /\ HasKey(bound.tables[local], name)
                                      THEN [bound EXCEPT !.tables[local] = DictDel(@, name)]
                                      ELSE bound,
                                      func, params, j + 1)
             ELSE BindParams(SetItem(st, local, name, params[j]), func, params, j + 1)

\* del func.local_symbol_table["inst"]["params"] when the local table binds inst
DelParams(func, st, res) ==
    LET local == func.local_symbol_table IN
    IF ~HasKey(st.tables[local], "inst") THEN Ok(st, res)
    ELSE LET inst == DictGet(st.tables[local], "inst").id IN
         IF HasKey(st.tables[inst], "params")
         THEN Ok([st EXCEPT !.tables[inst] = DictDel(@, "params")], res)
         ELSE Err(st, "KeyError")

\* lines 161-174: the two zip_longest loops over the keys of the class's and of
\* the parent's dict; r.inst is the instance table, r.super the dict under 'super'
RECURSIVE ZipLongest(_, _, _, _)
ZipLongest(r, own, parent, j) ==
    IF j > Len(own) /\ j > Len(parent) THEN r
    ELSE ZipLongest([inst |-> IF j <= Len(own) THEN DictSet(r.inst, own[j][1], own[j][2])
                               ELSE DictSet(r.inst, NoneKey, PyNone),
                     super |-> IF j <= Len(parent)
                               THEN DictSet(r.super, parent[j][1], parent[j][2])
                               ELSE r.super],
                    own, parent, j + 1)

\* inst.symbols.update(d)
RECURSIVE Update(_, _, _)
Update(table, d, j) == IF j > Len(d) THEN table ELSE Update(DictSet(table, d[j][1], d[j][2]), d, j + 1)

RECURSIVE visit(_, _, _), VisitEach(_, _, _, _, _), visit_FunctionCallNode(_, _, _, _)
RECURSIVE visit_AccessNode(_, _, _), visit_ObjectNode(_, _, _), Instantiate(_, _, _, _)
RECURSIVE InitBody(_, _, _, _)
RECURSIVE FunctionBody(_, _, _, _), visit_ForNode(_, _, _), ForLoop(_, _, _, _, _, _, _)
RECURSIVE visit_WhileNode(_, _, _), BodyOfLoop(_, _, _, _), visit_IfNode(_, _, _, _)
RECURSIVE IfBlock(_, _, _, _, _)

\* [self.visit(node, symbol_table) for node in nodes]
VisitEach(nodes, j, tid, st, results) ==
    IF j > Len(nodes) THEN Ok(st, results)
    ELSE LET r == visit(nodes[j], tid, st) IN
         IF r.exc /= "none" THEN r
         ELSE VisitEach(nodes, j + 1, tid, r.st, Append(results, r.val))

\* node.params as the last visit of the node left it
ParamsOf(node, st) ==
    IF HasKey(st.params, node.id) THEN DictGet(st.params, node.id) ELSE node.params

visit(node, tid, st) ==
    CASE Class(node) = "NumberNode" ->
            Ok(st, Number(IF node.tok.token_type = "FLOAT" THEN FloatOfString(node.tok.value)
                          ELSE PyInt(IntOfString(node.tok.value))))
      [] Class(node) = "StringNode" -> Ok(st, String(node.tok.value))
      [] Class(node) = "ListNode" ->
            \* lines 299-301: node.list becomes the dict of the values; a ListNode
            \* that the trees visit more than once carries an id
            LET values == IF "id" \in DOMAIN node /\ HasKey(st.params, node.id)
                          THEN DictGet(st.params, node.id)
                          ELSE [i \in 1..Len(node.list) |-> node.list[i][2]]
                r == VisitEach(values, 1, tid, st, <<>>)
            IN  IF r.exc /= "none" THEN r
                ELSE Ok(IF "id" \in DOMAIN node
                        THEN [r.st EXCEPT !.params = DictSet(@, node.id, r.val)] ELSE r.st,
                        [vals |-> [i \in 1..Len(r.val) |-> <<i - 1, r.val[i]>>],
                         value |-> [i \in 1..Len(r.val) |-> r.val[i].value]])
      [] Class(node) = "VarAccessNode" -> visit_VarAccessNode(node, tid, st)
      [] Class(node) = "VarAssignNode" ->
            LET r == visit(node.value, tid, st) IN
            IF r.exc /= "none" THEN r ELSE Ok(SetItem(r.st, tid, node.name, r.val), PyNone)
      [] Class(node) = "BinOpNode" ->
            LET l == visit(node.left_node, tid, st)
                r == visit(node.right_node, tid, l.st)
                res == BinOp(node.op_tok, l.val, r.val)
            IN  IF l.exc /= "none" THEN l
                ELSE IF r.exc /= "none" THEN r
                ELSE IF res.kind = "raise" THEN Err(r.st, res.exc) ELSE Ok(r.st, res)
      [] Class(node) = "UnaryOpNode" ->
            LET r == visit(node.operand, tid, st)
                res == NumberUnaryOp(node.op_tok, r.val.value)
            IN  IF r.exc /= "none" THEN r
                ELSE IF Class(r.val) /= "Number" THEN Err(r.st, "TypeError")
                ELSE Ok(r.st, res)
      [] Class(node) = "ReturnNode" -> visit(node.expression, tid, st)
      [] Class(node) = "FunctionNode" -> Ok(SetItem(st, tid, node.func_name, node), PyNone)
      [] Class(node) = "ExecuteBuiltInsNode" ->    \* print, the built-in of the trees
            LET r == VisitEach(ParamsOf(node, st), 1, tid, st, <<>>) IN
            IF r.exc /= "none" THEN r
            ELSE Ok([r.st EXCEPT !.params = DictSet(@, node.id, r.val)],
                    [kind |-> "tuple", items |-> <<"print", r.val>>])
      [] Class(node) = "FunctionCallNode" -> visit_FunctionCallNode(node, tid, st, FALSE)
      [] Class(node) = "AccessNode" -> visit_AccessNode(node, tid, st)
      [] Class(node) = "ObjectNode" -> visit_ObjectNode(node, tid, st)
      [] Class(node) = "ForNode" -> visit_ForNode(node, tid, st)
      [] Class(node) = "WhileNode" -> visit_WhileNode(node, tid, st)
      [] Class(node) = "IfNode" -> visit_IfNode(node, 1, tid, st)
      [] Class(node) = "list" ->
            LET r == VisitEach(node.items, 1, tid, st, <<>>) IN
            IF r.exc /= "none" THEN r
            ELSE Ok(r.st, DictGet(r.st.tables["root"],
                                  IF AllPassed(r.val) THEN "true" ELSE "false"))
      [] OTHER -> Err(st, "Exception")

\* visit_AccessNode (lines 46-83).  The item is a call, a name, an assignment
\* or a number; a tuple that is accessed is the tuple of an object, and an
\* index is applied to a List (line 76 reads the attribute value, which a
\* NumberNode does not have, so a missing index ends in AttributeError)
visit_AccessNode(node, tid, st) ==
    LET super == node.accessor.name = "super"
        item == node.item_to_access
        a == IF ~super THEN visit(node.accessor, tid, st)
             ELSE IF ~HasKey(st.tables[tid], "inst") THEN Err(st, "KeyError")
             ELSE visit(node.accessor, DictGet(st.tables[tid], "inst").id, st)
        accessing == a.val
    IN  IF a.exc /= "none" THEN a
        ELSE IF Class(accessing) = "tuple"
        THEN LET of_object == accessing.items[1].local_symbol_table IN
             IF ~HasKey(a.st.tables[of_object], "inst") THEN Err(a.st, "KeyError")
             ELSE LET local_symbol_table == DictGet(a.st.tables[of_object], "inst").id
                      first == visit(item, local_symbol_table, a.st)
                      second == visit(item, tid, first.st)
                  IN  IF first.exc /= "KeyError" THEN first
                      ELSE IF second.exc /= "KeyError" THEN second
                      \* visit(item, accessing[1]): an empty list is false in
                      \* visit_FunctionCallNode, and no list has string keys
                      ELSE IF Class(item) = "FunctionCallNode" /\ Len(accessing.items[2]) = 0
                      THEN Ok(second.st, PyNone)
                      ELSE Err(second.st, "TypeError")
        ELSE IF Class(item) = "FunctionCallNode"
        THEN LET d == IF Class(accessing) = "SymbolTable" THEN a.st.tables[accessing.id]
                      ELSE accessing.items
             IN  IF Class(accessing) \notin {"SymbolTable", "dict"} THEN Err(a.st, "TypeError")
                 ELSE IF ~HasKey(d, item.func_name) THEN Err(a.st, "KeyError")
                 ELSE IF Class(DictGet(d, item.func_name)) /= "FunctionNode"
                 THEN Err(a.st, "AttributeError")
                 ELSE LET result == FunctionCallNode(0, DictGet(d, item.func_name).func_name,
                                                     ParamsOf(item, a.st))
                      IN  IF super
                          THEN visit_FunctionCallNode(result, DictGet(a.st.tables[tid], "inst").id,
                                                      a.st, TRUE)
                          ELSE IF Class(accessing) /= "SymbolTable" THEN Err(a.st, "TypeError")
                          ELSE visit_FunctionCallNode(result, accessing.id, a.st, FALSE)
        ELSE IF Class(item) = "NumberNode"
        THEN LET idx == visit(item, tid, a.st).val.value.num IN
             IF Class(accessing) /= "List" \/ ~HasKey(accessing.vals, idx)
             THEN Err(a.st, "AttributeError")
             ELSE Ok(a.st, DictGet(accessing.vals, idx))
        ELSE IF Class(accessing) /= "SymbolTable" THEN Err(a.st, "TypeError")
        ELSE LET first == visit(item, accessing.id, a.st) IN
             IF first.exc /= "KeyError" THEN first ELSE visit(item, tid, first.st)

\* visit_ObjectNode (lines 85-94)
visit_ObjectNode(node, tid, st) ==
    LET attrs == VisitEach([i \in 1..Len(node.class_attrs) |-> node.class_attrs[i].value], 1, tid,
                           SetItem(st, tid, node.name, PyTuple(<<node, PyDict(<<>>)>>)), <<>>)
        bound == SetItem(attrs.st, tid, node.name,
                         PyTuple(<<node, PyDict([i \in 1..Len(node.class_attrs) |->
                                                    <<node.class_attrs[i].name, attrs.val[i]>>])>>))
        funcs == node.methods \o node.special_methods
    IN  IF attrs.exc /= "none" THEN attrs
        ELSE IF \E i \in 1..Len(funcs) : Class(funcs[i][2]) /= "FunctionNode"
        THEN Err(bound, "Exception")
        ELSE Ok([bound EXCEPT !.tables[node.local_symbol_table] =
                     Update(@, [i \in 1..Len(funcs) |-> <<funcs[i][2].func_name, funcs[i][2]>>], 1)],
                PyNone)

\* lines 184-186: the lines of init in the new object's table
InitBody(body, j, tid, st) ==
    IF j > Len(body) THEN Ok(st, PyNone)
    ELSE IF Class(body[j]) = "None" THEN InitBody(body, j + 1, tid, st)
    ELSE LET r == visit(body[j], tid, st) IN
         IF r.exc /= "none" THEN r ELSE InitBody(body, j + 1, tid, r.st)

\* lines 149-190: the name called is bound to a class.  The two new tables
\* take their names from the calling node, which the trees visit once
Instantiate(node, class_node, tid, st) ==
    LET new_symbol_table == "new" \o ToString(node.id)
        inst == "inst" \o ToString(node.id)
        initialization == DictGet(class_node.special_methods, "init")
        r == VisitEach(ParamsOf(node, st), 1, tid, st, <<>>)
        reassigned == [r.st EXCEPT !.params = DictSet(@, node.id, r.val)]
        n == IF Len(r.val) < Len(initialization.params) - 1 THEN Len(r.val)
             ELSE Len(initialization.params) - 1
        params == [j \in 1..n |-> <<initialization.params[j + 1], r.val[j]>>]
        merged == ZipLongest(ZipLongest([inst |-> <<<<"params", params>>>>, super |-> <<>>],
                                        class_node.special_methods,
                                        DictGet(st.tables[tid], class_node.inherit).items[1].special_methods, 1),
                             class_node.methods,
                             DictGet(st.tables[tid], class_node.inherit).items[1].methods, 1)
        made == [reassigned EXCEPT
                     !.tables[new_symbol_table] = <<<<"inst", SymbolTable(inst)>>>>,
                     !.tables[inst] =
                         IF class_node.inherit /= "None"
                         THEN DictSet(merged.inst, "super", PyDict(merged.super))
                         ELSE Update(<<<<"params", params>>>>, class_node.methods, 1)]
        new_obj == [class_node EXCEPT !.local_symbol_table = new_symbol_table]
        done == InitBody(initialization.body, 1, new_symbol_table, made)
    IN  IF r.exc /= "none" THEN r
        ELSE IF Class(initialization) /= "FunctionNode" THEN Err(reassigned, "AttributeError")
        ELSE IF class_node.inherit /= "None" /\ ~HasKey(st.tables[tid], class_node.inherit)
        THEN Err(reassigned, "KeyError")
        ELSE IF done.exc /= "none" THEN done
        ELSE Ok([done.st EXCEPT !.tables[inst] = DictDel(@, "params")],
                PyTuple(<<new_obj, class_node.class_attrs>>))

\* visit_FunctionCallNode (lines 141-235); a node made by visit_AccessNode has
\* id 0 and is dropped after the call
visit_FunctionCallNode(node, tid, st, superclass) ==
    LET table == IF ~superclass THEN st.tables[tid]
                 ELSE IF HasKey(st.tables[tid], "super") THEN DictGet(st.tables[tid], "super").items
                 ELSE <<>>
    IN  IF ~HasKey(table, node.func_name) THEN Err(st, "KeyError")
        ELSE LET func == DictGet(table, node.func_name)
                 r == VisitEach(ParamsOf(node, st), 1, tid, st, <<>>)
                 with_inst == Class(func) = "FunctionNode" /\
                              \E j \in 1..Len(func.params) : func.params[j] = "inst"
                 params == IF with_inst THEN <<SymbolTable(tid)>> \o r.val ELSE r.val
                 reassigned == IF node.id = 0 THEN r.st
                               ELSE [r.st EXCEPT !.params = DictSet(@, node.id, params)]
                 local == func.local_symbol_table
                 entered == IF HasKey(reassigned.tables[local], "inst") /\
                               Class(DictGet(reassigned.tables[local], "inst")) /= "SymbolTable"
                            THEN SetItem(SetItem(reassigned, local, "inst", SymbolTable(tid)),
                                         tid, "params", <<>>)
                            ELSE reassigned
                 bound == BindParams(entered, func, params, 1)
             IN  IF Class(func) = "tuple" THEN Instantiate(node, func.items[1], tid, st)
                 ELSE IF r.exc /= "none" THEN r
                 ELSE IF Class(func) /= "FunctionNode" THEN Err(reassigned, "AttributeError")
                 ELSE IF bound.exc /= "none" THEN bound
                 ELSE FunctionBody(func, 1, tid, bound.st)

\* lines 216-235: for line in func.body
FunctionBody(func, j, tid, st) ==
    IF j > Len(func.body) THEN DelParams(func, st, PyNone)
    ELSE IF Class(func.body[j]) = "None" THEN FunctionBody(func, j + 1, tid, st)
    ELSE LET line == func.body[j]
             local == visit(line, func.local_symbol_table, st)
             result == IF local.exc = "KeyError" THEN visit(line, tid, local.st) ELSE local
             res == visit(result.val, func.local_symbol_table, result.st)
         IN  IF result.exc /= "none" THEN result
             ELSE IF Class(line) = "ReturnNode"
             THEN IF Class(line.expression) = "AccessNode" /\
                     Class(line.expression.item_to_access) = "FunctionCallNode"
                  THEN DelParams(func, result.st, result.val)
                  ELSE result
             ELSE IF Class(result.val) = "ReturnNode"
             THEN IF res.exc /= "none" THEN res ELSE DelParams(func, res.st, res.val)
             ELSE FunctionBody(func, j + 1, tid, result.st)

\* the body of a for or while loop: for expr in body
BodyOfLoop(body, j, tid, st) ==
    IF j > Len(body) THEN Ok(st, PyNone)
    ELSE IF Class(body[j]) = "None" THEN BodyOfLoop(body, j + 1, tid, st)
    ELSE IF Class(body[j]) = "ReturnNode" THEN Ok(st, body[j])
    ELSE LET res == visit(body[j], tid, st) IN
         IF res.exc /= "none" \/ Class(res.val) = "ReturnNode" THEN res
         ELSE BodyOfLoop(body, j + 1, tid, res.st)

visit_ForNode(node, tid, st) ==
    LET init == visit(node.var_name.value, tid, st)
        end_value == visit(node.end_value, tid, SetItem(init.st, tid, node.var_name.name, init.val))
        step_value == visit(node.step_value, tid, end_value.st)
        check == visit(node.start_value, tid, step_value.st)
    IN  IF init.exc /= "none" THEN init
        ELSE IF end_value.exc /= "none" THEN end_value
        ELSE IF step_value.exc /= "none" THEN step_value
        ELSE IF check.exc /= "none" THEN check
        ELSE ForLoop(node, tid, check.st, check.val, end_value.val, step_value.val, 0)

\* lines 269-283: while condition() is True, n iterations being done.  A loop
\* whose condition still holds after MaxIterations iterations is taken as
\* running on: the visit does not return, which the result Running stands for
ForLoop(node, tid, st, check, end_value, step_value, n) ==
    LET condition == IF step_value.value.num > 0 THEN NumLt(check.value, end_value.value)
                     ELSE NumLt(end_value.value, check.value)
        res == BodyOfLoop(node.body, 1, tid, st)
        name == node.var_name.name
    IN  IF ~condition THEN Ok(st, PyNone)
        ELSE IF n >= MaxIterations THEN Err(st, "Running")
        ELSE IF res.exc /= "none" \/ Class(res.val) = "ReturnNode" THEN res
        ELSE IF ~HasKey(res.st.tables[tid], name) THEN Err(res.st, "KeyError")
        ELSE ForLoop(node, tid,
                     SetItem(res.st, tid, name,
                             NumAdd(DictGet(res.st.tables[tid], name).value, step_value.value)),
                     NumAdd(check.value, step_value.value), end_value, step_value, n + 1)

visit_WhileNode(node, tid, st) ==
    LET cond == visit(node.cond, tid, st)
        res == BodyOfLoop(node.body, 1, tid, cond.st)
    IN  IF cond.exc /= "none" THEN cond
        ELSE IF cond.val.value.num = 0 THEN Ok(cond.st, PyNone)
        ELSE IF res.exc /= "none" \/ Class(res.val) = "ReturnNode" THEN res
        ELSE visit_WhileNode(node, tid, res.st)

\* the block of an if case or of the else case
IfBlock(block, j, tid, st, block_results) ==
    IF j > Len(block) THEN Ok(st, PyList(block_results))
    ELSE IF Class(block[j]) = "None" THEN IfBlock(block, j + 1, tid, st, block_results)
    ELSE IF Class(block[j]) = "ReturnNode" THEN Ok(st, block[j])
    ELSE LET res == visit(block[j], tid, st) IN
         IF res.exc /= "none" THEN res
         ELSE IfBlock(block, j + 1, tid, res.st, Append(block_results, res.val))

\* from the case c on; a case is [condition, expr]
visit_IfNode(node, c, tid, st) ==
    IF c > Len(node.cases)
    THEN IF Len(node.else_case) > 0 THEN IfBlock(node.else_case, 1, tid, st, <<>>)
         ELSE Ok(st, PyNone)
    ELSE LET passed_cases == VisitEach(node.cases[c].condition, 1, tid, st, <<>>) IN
         IF passed_cases.exc /= "none" THEN passed_cases
         ELSE IF AllPassed(passed_cases.val)
         THEN IfBlock(node.cases[c].expr, 1, tid, passed_cases.st, <<>>)
         ELSE visit_IfNode(node, c + 1, tid, passed_cases.st)

(***************************************************************************)
(* The trees interpreted, written as the parser builds them from the       *)
(* statements shown: functions that return from inside nested blocks, for  *)
(* loops that count their iterations, and functions called twice or from   *)
(* their own body.                                                         *)
(***************************************************************************)
Num(n) == NumberNode(Token("INT", ToString(n)))
Op(tt, l, r) == BinOpNode(l, Token(tt, ""), r)
If(cond, block) == IfNode(<<[condition |-> <<cond>>, expr |-> block]>>, <<>>)

\* skipped = 3
Later == VarAssignNode("skipped", Num(3))

\* for (i = 0, 2) { body }, while skipped == 0 { body } and if 1 == 1 { body }
Wrap(kind, body) ==
    CASE kind = "for" -> ForNode(VarAssignNode("i", Num(0)), Num(2), Num(1), body)
      [] kind = "while" -> WhileNode(PyList(<<Op("IS_EQ", VarAccessNode("skipped"), Num(0))>>), body)
      [] kind = "if" -> If(Op("IS_EQ", Num(1), Num(1)), body)

\* return v inside the blocks of shape from the j-th on, each block ending with skipped = 3
RECURSIVE Nest(_, _, _)
Nest(shape, j, v) ==
    IF j > Len(shape) THEN <<ReturnNode(Num(v)), Later>>
    ELSE <<Wrap(shape[j], Nest(shape, j + 1, v)), Later>>

\* skipped = 0
\* define f() { <the nested blocks>  after = 2  return 5 }
\* f()
ReturnProgram(shape, v) ==
    <<VarAssignNode("skipped", Num(0)),
      FunctionNode("f", <<>>,
                   <<Nest(shape, 1, v)[1], VarAssignNode("after", Num(2)), ReturnNode(Num(5))>>),
      FunctionCallNode(1, "f", <<>>)>>

Shapes == SeqsUpTo({"for", "while", "if"}, MaxDepth)
ReturnPrograms == {ReturnProgram(shape, v) : shape \in Shapes, v \in 1..MaxArg}

Extras == {"none", "assign", "print", "call"}
Steps == ((-MaxStep)..MaxStep) \ {0}

\* count = 0
\* define g(n) { return n }
\* for (i = s, e, k) { count = count + 1  <extra: nothing, i = 0, print(i) or g(i)> }
ForProgram(s, e, k, extra) ==
    <<VarAssignNode("count", Num(0)),
      FunctionNode("g", <<"n">>, <<ReturnNode(VarAccessNode("n"))>>),
      ForNode(VarAssignNode("i", Num(s)), Num(e),
              IF k >= 0 THEN Num(k) ELSE UnaryOpNode(Token("MINUS", "-"), Num(-k)),
              <<VarAssignNode("count", Op("PLUS", VarAccessNode("count"), Num(1)))>>
              \o CASE extra = "none" -> <<>>
                   [] extra = "assign" -> <<VarAssignNode("i", Num(0))>>
                   [] extra = "print" -> <<ExecuteBuiltInsNode(1, "print", <<VarAccessNode("i")>>)>>
                   [] extra = "call" -> <<FunctionCallNode(1, "g", <<VarAccessNode("i")>>)>>)>>

ForPrograms ==
    {ForProgram(s, e, k, extra) : s \in 0..MaxStart, e \in 0..MaxEnd, k \in Steps,
                                  extra \in Extras}

\* go = 1
\* define f(n) { if go == 1 { go = 0  f(0) }  return n }
\* f(a)
GuardedSelfCall(a) ==
    <<VarAssignNode("go", Num(1)),
      FunctionNode("f", <<"n">>,
                   <<If(Op("IS_EQ", VarAccessNode("go"), Num(1)),
                        <<VarAssignNode("go", Num(0)), FunctionCallNode(1, "f", <<Num(0)>>)>>),
                     ReturnNode(VarAccessNode("n"))>>),
      FunctionCallNode(2, "f", <<Num(a)>>)>>

\* null = 0
\* define f(n) { if n > 0 { f(n - 1) }  return n }
\* f(a)
CountdownSelfCall(a) ==
    <<VarAssignNode("null", Num(0)),
      FunctionNode("f", <<"n">>,
                   <<If(Op("GT", VarAccessNode("n"), Num(0)),
                        <<FunctionCallNode(1, "f", <<Op("MINUS", VarAccessNode("n"), Num(1))>>)>>),
                     ReturnNode(VarAccessNode("n"))>>),
      FunctionCallNode(2, "f", <<Num(a)>>)>>

SelfCallPrograms(a) == {GuardedSelfCall(a), CountdownSelfCall(a)}

\* define h(a) { tmp = a  return tmp }
\* h(a)
\* h(b)
TwoCalls(a, b) ==
    <<FunctionNode("h", <<"a">>,
                   <<VarAssignNode("tmp", VarAccessNode("a")), ReturnNode(VarAccessNode("tmp"))>>),
      FunctionCallNode(1, "h", <<Num(a)>>),
      FunctionCallNode(2, "h", <<Num(b)>>)>>

ActivationPrograms ==
    UNION {SelfCallPrograms(a) : a \in 1..MaxArg}
    \cup {TwoCalls(a, b) : a \in 1..MaxArg, b \in 1..MaxArg}

\* if c11 and c12 { case1 = 1 } elif c21 and c22 { case2 = 1 } else { else = 1 }
\* with the literals conds[c][i] as conditions
IfProgram(conds, with_else) ==
    <<IfNode([c \in 1..Len(conds) |->
                 [condition |-> [i \in 1..Len(conds[c]) |-> Num(conds[c][i])],
                  expr |-> <<VarAssignNode("case" \o ToString(c), Num(1))>>]],
             IF with_else THEN <<VarAssignNode("else", Num(1))>> ELSE <<>>)>>

\* one to MaxCases cases of one or two conditions 0, 1 or 2
CondLists == SeqsUpTo(SeqsUpTo(0..2, 2) \ {<<>>}, MaxCases) \ {<<>>}

\* define g(n) { return n }
\* define f(a) { x = <rhs: v, a + 1, g(v) or g(a)>  return x }
\* f(v)
FrameProgram(rhs, v) ==
    <<FunctionNode("g", <<"n">>, <<ReturnNode(VarAccessNode("n"))>>),
      FunctionNode("f", <<"a">>,
                   <<VarAssignNode("x",
                         CASE rhs = "literal" -> Num(v)
                           [] rhs = "param" -> Op("PLUS", VarAccessNode("a"), Num(1))
                           [] rhs = "call" -> FunctionCallNode(1, "g", <<Num(v)>>)
                           [] rhs = "call param" -> FunctionCallNode(1, "g", <<VarAccessNode("a")>>)),
                     ReturnNode(VarAccessNode("x"))>>),
      FunctionCallNode(2, "f", <<Num(v)>>)>>

RightSides == {"literal", "param", "call", "call param"}

\* print(v) as a statement of the program, of the body of a function that is
\* called, of a for loop that runs once, or of an if whose condition is 1
PrintProgram(place, v) ==
    LET call == ExecuteBuiltInsNode(1, "print", <<Num(v)>>) IN
    CASE place = "program" -> <<call>>
      [] place = "function" -> <<FunctionNode("f", <<>>, <<call>>), FunctionCallNode(2, "f", <<>>)>>
      [] place = "loop" -> <<ForNode(VarAssignNode("i", Num(0)), Num(1), Num(1), <<call>>)>>
      [] place = "if" -> <<If(Op("IS_EQ", Num(1), Num(1)), <<call>>)>>

Places == {"program", "function", "loop", "if"}

\* object A { define init(inst, x) { inst.x = value } define get(inst) { return inst.x } }
\* as obj_expr and factor build it: inst.x = value is an AccessNode whose
\* item is the assignment
ClassA(value) ==
    ObjectNode("A",
               <<<<"get", MethodNode("A", "get", <<"inst">>,
                                     <<ReturnNode(AccessNode(VarAccessNode("inst"),
                                                             VarAccessNode("x")))>>)>>>>,
               <<<<"init", MethodNode("A", "init", <<"inst", "x">>,
                                      <<AccessNode(VarAccessNode("inst"),
                                                   VarAssignNode("x", value))>>)>>>>,
               "A", <<>>, "None")

\* object B(A) { define init(inst, x) { super.init(x) } }
ClassB ==
    ObjectNode("B", <<>>,
               <<<<"init", MethodNode("B", "init", <<"inst", "x">>,
                                      <<AccessNode(VarAccessNode("super"),
                                                   FunctionCallNode(3, "init",
                                                                    <<VarAccessNode("x")>>))>>)>>>>,
               "B", <<>>, "A")

\* r = a.x or r = a.get()
Read(name, reader) ==
    VarAssignNode("r", AccessNode(VarAccessNode(name),
                                  IF reader = "attribute" THEN VarAccessNode("x")
                                  ELSE FunctionCallNode(2, "get", <<>>)))
Readers == {"attribute", "method"}

\* g = v, class A whose init assigns the parameter, the literal v or the root
\* variable g to inst.x, a = A(v), and a read of the attribute
AttributeProgram(rhs, v, reader) ==
    <<VarAssignNode("g", Num(v)),
      ClassA(CASE rhs = "param" -> VarAccessNode("x")
               [] rhs = "literal" -> Num(v)
               [] rhs = "root" -> VarAccessNode("g")),
      VarAssignNode("a", FunctionCallNode(1, "A", <<Num(v)>>)),
      Read("a", reader)>>
Values == {"param", "literal", "root"}

\* a = A(v), then a.x = w as a statement of the program, and a read
WriteProgram(v, w, reader) ==
    <<VarAssignNode("g", Num(v)), ClassA(VarAccessNode("x")),
      VarAssignNode("a", FunctionCallNode(1, "A", <<Num(v)>>)),
      AccessNode(VarAccessNode("a"), VarAssignNode("x", Num(w))),
      Read("a", reader)>>

\* b = B(v) for B(A) without a get of its own, and a read
InheritProgram(v, reader) ==
    <<ClassA(VarAccessNode("x")), ClassB,
      VarAssignNode("b", FunctionCallNode(1, "B", <<Num(v)>>)),
      Read("b", reader)>>

\* one String and one Number operand, an INT or a FLOAT, in either order
MixedOperands ==
    LET str == StringNode(Token("STRING", "a"))
        int == Num(2)
        float == NumberNode(Token("FLOAT", "1.5"))
    IN  {<<str, int>>, <<int, str>>, <<str, float>>, <<float, str>>}

\* the arithmetic and comparison operators other than MULT
MixedOps == {"PLUS", "MINUS", "DIV", "EXP", "N_EQ", "IS_EQ", "LTE", "GTE", "LT", "GT"}

MixedProgram(op, operands) == <<Op(op, operands[1], operands[2])>>

\* the lists of up to MaxElements items 1..MaxItem, and a program that
\* compares two list literals
ElementLists == SeqsUpTo(1..MaxItem, MaxElements)
ListLiteralNode(items) == ListNode([i \in 1..Len(items) |-> Num(items[i])])
ListCompareProgram(op, a, b) == <<Op(op, ListLiteralNode(a), ListLiteralNode(b))>>

\* object A { define init(inst, x) { inst.x = x } define get(inst) { body } }
ClassGet(body) ==
    ObjectNode("A", <<<<"get", MethodNode("A", "get", <<"inst">>, body)>>>>,
               ClassA(VarAccessNode("x")).special_methods, "A", <<>>, "None")

\* the ways out of the body of get: falling off the end after inst.y = 1,
\* return inst.x as a statement of the body, and return inst.x inside
\* if 1 == 1 { }, for (i = 0, 2) { } or while 1 == 1 { }
ExitPaths == {"end", "return", "if", "for", "while"}
ExitBody(path) ==
    LET ret == ReturnNode(AccessNode(VarAccessNode("inst"), VarAccessNode("x"))) IN
    CASE path = "end" -> <<AccessNode(VarAccessNode("inst"), VarAssignNode("y", Num(1)))>>
      [] path = "return" -> <<ret>>
      [] path = "if" -> <<If(Op("IS_EQ", Num(1), Num(1)), <<ret>>)>>
      [] path = "for" -> <<ForNode(VarAssignNode("i", Num(0)), Num(2), Num(1), <<ret>>)>>
      [] path = "while" -> <<WhileNode(PyList(<<Op("IS_EQ", Num(1), Num(1))>>), <<ret>>)>>

\* a = A(v) and r = a.get() for the class whose get leaves by the path
ExitProgram(path, v) ==
    <<ClassGet(ExitBody(path)),
      VarAssignNode("a", FunctionCallNode(1, "A", <<Num(v)>>)),
      Read("a", "method")>>


\* object A { define init(inst, x) { inst.x = x } define get(inst) { return inst.x }
\*            define set(inst, v) { inst.x = v } }
ClassGetSet ==
    ObjectNode("A",
               ClassA(VarAccessNode("x")).methods
               \o <<<<"set", MethodNode("A", "set", <<"inst", "v">>,
                                        <<AccessNode(VarAccessNode("inst"),
                                                     VarAssignNode("x", VarAccessNode("v")))>>)>>>>,
               ClassA(VarAccessNode("x")).special_methods, "A", <<>>, "None")

\* target = name.get() or name.set(u), the call being the node id
MethodCall(target, name, method, id, u) ==
    IF method = "get"
    THEN VarAssignNode(target, AccessNode(VarAccessNode(name), FunctionCallNode(id, "get", <<>>)))
    ELSE AccessNode(VarAccessNode(name), FunctionCallNode(id, "set", <<Num(u)>>))

\* a = A(v), b = A(w), then no call, r = a.get() or a.set(v + w) on a, and
\* s = b.get() or b.set(v + w) on b
Methods == {"get", "set"}
PairProgram(v, w, first, second) ==
    <<ClassGetSet,
      VarAssignNode("a", FunctionCallNode(1, "A", <<Num(v)>>)),
      VarAssignNode("b", FunctionCallNode(4, "A", <<Num(w)>>))>>
    \o (IF first = "none" THEN <<>> ELSE <<MethodCall("r", "a", first, 2, v + w)>>)
    \o <<MethodCall("s", "b", second, 5, v + w)>>

\* count = c
\* define g(n) { return n }
\* define f() { <if 1 == 1, for (i = 0, 1) or while count == c> { count = count + 1  <g(1)> } }
\* f()
\* the one line of f's body is the block; the call g(1) uses a name that f's
\* table does not bind
Blocks == {"if", "for", "while"}
BumpProgram(kind, with_call, c) ==
    LET body == <<VarAssignNode("count", Op("PLUS", VarAccessNode("count"), Num(1)))>>
                \o (IF with_call THEN <<FunctionCallNode(1, "g", <<Num(1)>>)>> ELSE <<>>)
    IN  <<VarAssignNode("count", Num(c)),
          FunctionNode("g", <<"n">>, <<ReturnNode(VarAccessNode("n"))>>),
          FunctionNode("f", <<>>,
                       <<CASE kind = "if" -> If(Op("IS_EQ", Num(1), Num(1)), body)
                           [] kind = "for" -> ForNode(VarAssignNode("i", Num(0)), Num(1), Num(1), body)
                           [] kind = "while" ->
                                 WhileNode(PyList(<<Op("IS_EQ", VarAccessNode("count"), Num(c))>>),
                                           body)>>),
          FunctionCallNode(2, "f", <<>>)>>

\* a statement whose node is visited twice: print(arg), last = g(arg) or
\* last = [v], inside for (i = 0, 2) { } with arg the loop variable, or as
\* the body of f(a), called as f(v) and f(v + 1), with arg the parameter.
\* The call of g inside f is left out: it fails at its first visit (C16)
Revisits == ({"builtin", "call", "list"} \X {"loop", "function"}) \ {<<"call", "function">>}
RevisitProgram(kind, place, v) ==
    LET arg == VarAccessNode(IF place = "loop" THEN "i" ELSE "a")
        stmt == CASE kind = "builtin" -> ExecuteBuiltInsNode(1, "print", <<arg>>)
                  [] kind = "call" -> VarAssignNode("last", FunctionCallNode(1, "g", <<arg>>))
                  [] kind = "list" ->
                        VarAssignNode("last", [node |-> "ListNode", id |-> 1,
                                               list |-> ListLiteralNode(<<v>>).list])
    IN  <<FunctionNode("g", <<"n">>, <<ReturnNode(VarAccessNode("n"))>>)>>
        \o (IF place = "loop"
            THEN <<ForNode(VarAssignNode("i", Num(0)), Num(2), Num(1), <<stmt>>)>>
            ELSE <<FunctionNode("f", <<"a">>, <<stmt>>),
                   FunctionCallNode(2, "f", <<Num(v)>>),
                   FunctionCallNode(3, "f", <<Num(v + 1)>>)>>)

\* the conditions logical_expr makes of atoms joined by one keyword, and or
\* or (lines 355-365): a lone atom is appended as it is, an atom before the
\* keyword is not appended, and each atom after a keyword appends
\* BinOpNode(conditions[-2], keyword, conditions[-1])
Chained(atoms, word) ==
    IF Len(atoms) = 1 THEN atoms
    ELSE [j \in 1..(Len(atoms) - 1) |->
             BinOpNode(atoms[j], Token("KEYWORD", word), atoms[j + 1])]

\* if <a or b or ...> { passed = 1 }
OrAtoms == SeqsUpTo({0, 1}, MaxAtoms) \ {<<>>}
OrProgram(atoms) ==
    <<IfNode(<<[condition |-> Chained([j \in 1..Len(atoms) |-> Num(atoms[j])], "or"),
                expr |-> <<VarAssignNode("passed", Num(1))>>]>>, <<>>)>>

Programs ==
    ReturnPrograms \cup ForPrograms \cup ActivationPrograms
    \cup {FrameProgram(rhs, v) : rhs \in RightSides, v \in 1..MaxArg}
    \cup {PrintProgram(place, v) : place \in Places, v \in 1..MaxArg}
    \cup {AttributeProgram(rhs, v, reader) : rhs \in Values, v \in 1..MaxArg, reader \in Readers}
    \cup {WriteProgram(v, w, reader) : v \in 1..MaxArg, w \in 1..MaxArg, reader \in Readers}
    \cup {InheritProgram(v, reader) : v \in 1..MaxArg, reader \in Readers}
    \cup {MixedProgram(op, operands) : op \in MixedOps \cup {"MULT"}, operands \in MixedOperands}
    \cup {ListCompareProgram(op, a, b) : op \in {"IS_EQ", "N_EQ"}, a \in ElementLists, b \in ElementLists}
    \cup {IfProgram(conds, with_else) : conds \in CondLists, with_else \in BOOLEAN}
    \cup {ExitProgram(path, v) : path \in ExitPaths, v \in 1..MaxArg}
    \cup {OrProgram(atoms) : atoms \in OrAtoms}
    \cup {RevisitProgram(r[1], r[2], v) : r \in Revisits, v \in 1..MaxArg}
    \cup {ForProgram(s, e, 0, extra) : s \in 0..MaxStart, e \in 0..MaxEnd, extra \in Extras}
    \cup {BumpProgram(kind, with_call, c) : kind \in Blocks, with_call \in BOOLEAN, c \in 0..MaxArg}
    \cup {PairProgram(v, w, first, second) : v \in 1..MaxArg, w \in 1..MaxArg,
                                             first \in Methods \cup {"none"}, second \in Methods}

TableIds ==
    {"root", "f", "g", "h", "A", "B", "A.init", "A.get", "A.set", "B.init", "new1", "inst1",
     "new4", "inst4"}

\* the FunctionNodes of the trees: the functions and the methods of the objects
FunctionsOf(trees) ==
    {trees[i] : i \in {j \in 1..Len(trees) : Class(trees[j]) = "FunctionNode"}}
    \cup UNION {LET funcs == trees[i].methods \o trees[i].special_methods
                IN  {funcs[k][2] : k \in 1..Len(funcs)} :
                i \in {j \in 1..Len(trees) : Class(trees[j]) = "ObjectNode"}}

\* Interpreter.__init__ for the root table, create_function_expr for the local tables
InitialTable(trees, tid) ==
    IF tid = "root"
    THEN <<<<"true", Number(PyInt(1))>>, <<"false", Number(PyInt(0))>>,
           <<"null", Number(PyInt(0))>>>>
    ELSE IF \E func \in FunctionsOf(trees) : func.local_symbol_table = tid
    THEN LET func == CHOOSE func \in FunctionsOf(trees) : func.local_symbol_table = tid
         IN  [j \in 1..Len(func.params) |-> <<func.params[j], Number(PyInt(0))>>]
    ELSE <<>>

InterpInit ==
    /\ InterpOthersIdle
    /\ ast \in Programs
    /\ ast_pos = 0
    /\ symbol_tables = [tid \in TableIds |-> InitialTable(ast, tid)]
    /\ node_params = <<>>
    /\ interpreted_results = <<>>
    /\ interpStatus = "run"
    /\ stdout = ""

\* main.py line 18: interpreter.visit(to_parse) for the next tree of ast
VisitTree ==
    /\ interpStatus = "run"
    /\ ast_pos < Len(ast)
    /\ LET r == visit(ast[ast_pos + 1], "root", [tables |-> symbol_tables, params |-> node_params])
       IN  /\ symbol_tables' = r.st.tables
           /\ node_params' = r.st.params
           /\ IF r.exc /= "none"
              THEN /\ interpStatus' = r.exc
                   /\ UNCHANGED <<ast_pos, interpreted_results>>
              ELSE /\ interpreted_results' = Append(interpreted_results, r.val)
                   /\ ast_pos' = ast_pos + 1
                   /\ UNCHANGED interpStatus
    /\ UNCHANGED <<ast, stdout, InterpOthers>>

\* sep.join(strs)
RECURSIVE Join(_, _)
Join(strs, sep) ==
    IF Len(strs) = 0 THEN ""
    ELSE IF Len(strs) = 1 THEN strs[1]
    ELSE strs[1] \o sep \o Join(Tail(strs), sep)

\* str(v) of an integer Number's value, of None, of the tuple of a print and of
\* a list of these
RECURSIVE PyStr(_)
PyStr(v) ==
    CASE Class(v) = "Number" -> ToString(v.value.num)
      [] Class(v) = "tuple" ->
            "('print', '" \o Join([i \in 1..Len(v.items[2]) |-> PyStr(v.items[2][i])], "\n")
            \o "')"
      [] Class(v) = "list" -> "[" \o Join([i \in 1..Len(v.items) |-> PyStr(v.items[i])], ", ") \o "]"
      [] Class(v) = "String" -> v.value
      [] Class(v) = "List" ->
            "[" \o Join([i \in 1..Len(v.value) |-> ToString(v.value[i].num)], ", ") \o "]"
      [] OTHER -> "None"

\* text.strip('\n') of the joined lines: the empty lines at both ends go
RECURSIVE StripLines(_)
StripLines(lines) ==
    IF Len(lines) = 0 THEN lines
    ELSE IF lines[1] = "" THEN StripLines(Tail(lines))
    ELSE IF lines[Len(lines)] = "" THEN StripLines(SubSeq(lines, 1, Len(lines) - 1))
    ELSE lines

\* bool(line_return): None and the empty list are false
IsTrue(v) == Class(v) /= "None" /\ (Class(v) = "list" => Len(v.items) > 0)

\* main.py lines 19-25: run returns and the results are written; a result
\* that is true, no list and has no value attribute raises AttributeError
WriteResults ==
    /\ interpStatus = "run"
    /\ ast_pos = Len(ast)
    /\ IF \E i \in 1..Len(interpreted_results) :
              /\ IsTrue(interpreted_results[i])
              /\ Class(interpreted_results[i]) /= "list"
              /\ ~HasValue(interpreted_results[i])
       THEN interpStatus' = "AttributeError" /\ UNCHANGED stdout
       ELSE /\ interpStatus' = "done"
            /\ stdout' = Join(StripLines([i \in 1..Len(interpreted_results) |->
                                             IF IsTrue(interpreted_results[i])
                                             THEN PyStr(interpreted_results[i])
                                             ELSE ""]), "\n")
    /\ UNCHANGED <<ast, ast_pos, symbol_tables, node_params, interpreted_results, InterpOthers>>

InterpNext == VisitTree \/ WriteResults

SpecInterp == InterpInit /\ [][InterpNext]_vars

\* C2: when a return statement is reached inside a function body at any
\* nesting depth of for/while/if blocks, the call yields the value of the
\* return expression, and no later statement of an enclosing block or of the
\* function body is executed: neither skipped nor after gets assigned.
C2_ReturnUnwinds ==
    \A shape \in Shapes, v \in 1..MaxArg :
        ast = ReturnProgram(shape, v) =>
            /\ interpStatus \in {"run", "done"}
            /\ ast_pos = 3 =>
                   /\ interpreted_results[3] = Number(PyInt(v))
                   /\ DictKeys(symbol_tables["f"]) \cap {"skipped", "after"} = {}
                   /\ DictGet(symbol_tables["root"], "skipped") = Number(PyInt(0))

\* the number of values s, s + k, s + 2k, ... for which the loop predicate holds
IterationCount(s, e, k) ==
    Cardinality({n \in 0..(MaxStart + MaxEnd) :
                    IF k > 0 THEN s + n * k < e ELSE s + n * k > e})

\* C9: a for loop with integer start s, end e and step k runs its body once
\* for each value s, s + k, s + 2k, ... for which the predicate holds
\* (current < e when k > 0, current > e otherwise), zero times when it is
\* false at entry, whether or not the body assigns to the loop variable or
\* contains a built-in or function call: count ends as that number.
C9_ForIterationCount ==
    \A s \in 0..MaxStart, e \in 0..MaxEnd, k \in Steps, extra \in Extras :
        ast = ForProgram(s, e, k, extra) =>
            /\ interpStatus \in {"run", "done"}
            /\ ast_pos = 3 =>
                   DictGet(symbol_tables["root"], "count") = Number(PyInt(IterationCount(s, e, k)))

\* C10: each invocation of a function owns a fresh local environment: a
\* function that calls itself returns its own argument n after the inner
\* call, and at the start of a call from the top level the function's local
\* table binds no local variable assigned during an earlier call.
C10_FreshLocalEnvironment ==
    /\ \A a \in 1..MaxArg :
           ast \in SelfCallPrograms(a) =>
               /\ interpStatus \in {"run", "done"}
               /\ ast_pos = 3 => interpreted_results[3] = Number(PyInt(a))
    /\ \A a \in 1..MaxArg, b \in 1..MaxArg :
           ast = TwoCalls(a, b) /\ interpStatus = "run" /\ ast_pos \in 1..2 =>
               DictKeys(symbol_tables["h"]) \subseteq {"a"}

(***************************************************************************)
(* The list built-ins, step by step (SpecList).                            *)
(***************************************************************************)
\* the sequence without its element at position i (from 1)
RemoveAt(seq, i) == SubSeq(seq, 1, i - 1) \o SubSeq(seq, i + 1, Len(seq))

\* C14: for a list of length n and every index 0 <= i < n, pop(list, i)
\* raises nothing and leaves the list equal to the old sequence with the
\* element at position i removed, the order of the others kept; this holds
\* for every pop of a sequence of pops on the same list.
C14_PopRemovesElement ==
    [][\A l \in ListNames, idx \in 0..(MaxListLen - 1) :
           Pop(l, idx) =>
               /\ listErr' = "none"
               /\ lists'[l].value = RemoveAt(lists[l].value, idx + 1)]_vars

\* C15: for every list of length n >= 0, the empty list included,
\* append(list, v) raises nothing and leaves the old elements followed by
\* v; extend(a, b) raises nothing and leaves the old a followed by the
\* elements of b in order, also when a and b are the same list.
C15_AppendAndExtend ==
    [][/\ \A l \in ListNames, item \in Items :
              AppendItem(l, item) =>
                  /\ listErr' = "none"
                  /\ lists'[l].value = Append(lists[l].value, item)
       /\ \A l \in ListNames, m \in ListNames :
              Extend(l, m) =>
                  /\ listErr' = "none"
                  /\ lists'[l].value = lists[l].value \o lists[m].value]_vars

(***************************************************************************)
(* If statements (SpecInterp).                                             *)
(***************************************************************************)
\* the cases whose conditions are all 1
Passing(conds) == {c \in 1..Len(conds) : \A i \in 1..Len(conds[c]) : conds[c][i] = 1}

\* the body that is to run: the first passing case's, else the else body, else none
BodyToRun(conds, with_else) ==
    IF Passing(conds) /= {}
    THEN {"case" \o ToString(CHOOSE c \in Passing(conds) : \A d \in Passing(conds) : c <= d)}
    ELSE IF with_else THEN {"else"} ELSE {}

\* the bodies that ran: each body binds its own name in the root table
BodiesRun == DictKeys(symbol_tables["root"]) \ {"true", "false", "null"}

\* C13: evaluating an if/elif/else executes exactly one body or none: the
\* body of the first case, in source order, whose conditions all evaluate
\* to 1; the else body when no case passes and an else exists; no body
\* otherwise.
C13_OneBodyRuns ==
    \A conds \in CondLists, with_else \in BOOLEAN :
        ast = IfProgram(conds, with_else) =>
            /\ interpStatus \in {"run", "done"}
            /\ BodiesRun = IF ast_pos = 1 THEN BodyToRun(conds, with_else) ELSE {}

\* an if whose first case fails on its second condition and whose second case
\* passes has run the second body only, an else body being present
C13_Witness ==
    /\ ast = IfProgram(<<<<1, 0>>, <<1, 1>>>>, TRUE)
    /\ ast_pos = 1
    /\ BodiesRun = {"case2"}

\* C16: an assignment x = e executed as a statement of a function body binds
\* x only in that function's local environment: the call raises nothing,
\* binds x in f's table and leaves the bindings of the root table, which is
\* the caller's table, as they were, also when e calls a function defined
\* in the root table.
C16_AssignmentStaysLocal ==
    [][\A rhs \in RightSides, v \in 1..MaxArg :
           ast = FrameProgram(rhs, v) /\ ast_pos = 2 /\ VisitTree =>
               /\ interpStatus' = "run"
               /\ symbol_tables'["root"] = symbol_tables["root"]
               /\ HasKey(symbol_tables'["f"], "x")]_vars

\* C18: every print call that the program executes, also one inside a
\* function body, a loop body or an if-body, adds its text to the program's
\* output: a program whose one print call prints v writes v, and nothing
\* is raised.
C18_PrintReachesOutput ==
    \A place \in Places, v \in 1..MaxArg :
        ast = PrintProgram(place, v) =>
            /\ interpStatus \in {"run", "done"}
            /\ interpStatus = "done" => stdout = ToString(v)

\* C19: a binary arithmetic or comparison operator other than * applied to
\* one String and one Number operand, integer or float, in either order,
\* evaluates to Number(0).
C19_MixedOperandsGiveZero ==
    \A op \in MixedOps, operands \in MixedOperands :
        ast = MixedProgram(op, operands) /\ ast_pos = 1 =>
            /\ interpStatus \in {"run", "done"}
            /\ interpreted_results[1] = Number(PyInt(0))

\* C20: for two lists a and b, a == b evaluates to 1 exactly when they have
\* the same length and equal elements at every index, and a != b evaluates
\* to the complement.
C20_ListEquality ==
    \A a \in ElementLists, b \in ElementLists :
        /\ ast = ListCompareProgram("IS_EQ", a, b) /\ ast_pos = 1 =>
               interpreted_results[1] = Number(PyBool(a = b))
        /\ ast = ListCompareProgram("N_EQ", a, b) /\ ast_pos = 1 =>
               interpreted_results[1] = Number(PyBool(a /= b))

\* the table binds name to the Number n
Binds(table, name, n) == HasKey(table, name) /\ DictGet(table, name) = Number(PyInt(n))

\* C11: an assignment to an attribute, inst.x = v, binds x to v in the
\* accessor's environment and not in the table the statement runs in, and a
\* later read of the attribute on the same instance returns v.  Checked for
\* the assignment in init, with v the parameter, a literal or a root
\* variable, and for the assignment a.x = w as a statement of the program.
C11_AttributeWrite ==
    /\ \A rhs \in Values, v \in 1..MaxArg, reader \in Readers :
           ast = AttributeProgram(rhs, v, reader) =>
               /\ interpStatus \in {"run", "done"}
               /\ ast_pos >= 3 => /\ Binds(symbol_tables["inst1"], "x", v)
                                  /\ ~HasKey(symbol_tables["new1"], "x")
               /\ ast_pos >= 4 => Binds(symbol_tables["root"], "r", v)
    /\ \A v \in 1..MaxArg, w \in 1..MaxArg, reader \in Readers :
           ast = WriteProgram(v, w, reader) =>
               /\ interpStatus \in {"run", "done"}
               /\ ast_pos >= 4 => /\ Binds(symbol_tables["inst1"], "x", w)
                                  /\ ~HasKey(symbol_tables["root"], "x")
               /\ ast_pos >= 5 => Binds(symbol_tables["root"], "r", w)

\* C12: for B declared with parent A, super.init(v) inside B's init runs A's
\* init on the new instance, which then binds x to v, and the method get
\* that only A defines can be called on the instance as b.get() and returns
\* the instance's x.
C12_InheritedMethod ==
    \A v \in 1..MaxArg, reader \in Readers :
        ast = InheritProgram(v, reader) =>
            /\ interpStatus \in {"run", "done"}
            /\ ast_pos >= 3 => Binds(symbol_tables["inst1"], "x", v)
            /\ ast_pos >= 4 => Binds(symbol_tables["root"], "r", v)

\* the names that are read
LookupNames == {"true", "g", "x", "r", "inst", "get"}

\* C17: reading a name n in table T returns T[n] when T binds n, otherwise
\* the binding of n in T's params slot when T has one and it binds n,
\* otherwise the root table's binding of n, also when T has a params slot
\* that does not bind n.  Stated of every table of every state the programs
\* reach.
C17_LookupOrder ==
    \A tid \in TableIds, n \in LookupNames :
        LET T == symbol_tables[tid]
            root == symbol_tables["root"]
            res == visit_VarAccessNode(VarAccessNode(n), tid,
                                       [tables |-> symbol_tables, params |-> node_params])
        IN  IF HasKey(T, n) THEN res.exc = "none" /\ res.val = DictGet(T, n)
            ELSE IF HasKey(T, "params") /\ HasKey(DictGet(T, "params"), n)
            THEN res.exc = "none" /\ res.val = DictGet(DictGet(T, "params"), n)
            ELSE HasKey(root, n) => res.exc = "none" /\ res.val = DictGet(root, n)

\* C26: after a method call on an instance has returned, by falling off the
\* end of the body, by a return statement of the body or by a return inside
\* a nested if or loop, the instance's table has no params slot.
C26_ParamsSlotRemoved ==
    \A path \in ExitPaths, v \in 1..MaxArg :
        ast = ExitProgram(path, v) =>
            /\ interpStatus \in {"run", "done"}
            /\ (ast_pos >= 3 => ~HasKey(symbol_tables["inst1"], "params"))

\* C27: two instances of a class have separate state.  For a = A(v) and
\* b = A(w), a method called on b, also after a call of a method on a, reads
\* and writes b's table only: b.get() returns w, b.set(u) binds x to u in
\* b's table, and a's x is what a's own calls made it.
C27_SeparateInstances ==
    \A v \in 1..MaxArg, w \in 1..MaxArg, first \in Methods \cup {"none"}, second \in Methods :
        ast = PairProgram(v, w, first, second) =>
            /\ interpStatus \in {"run", "done"}
            /\ (ast_pos = Len(ast) =>
                   /\ Binds(symbol_tables["inst1"], "x", IF first = "set" THEN v + w ELSE v)
                   /\ Binds(symbol_tables["inst4"], "x", IF second = "set" THEN v + w ELSE w)
                   /\ (second = "get" => Binds(symbol_tables["root"], "s", w)))

\* the number of times count = count + 1 was executed in a program that
\* starts with count = c: each execution binds count, in the table it runs
\* in, to one more than the value it read
Evaluations(c) ==
    (DictGet(symbol_tables["root"], "count").value.num - c)
    + (IF HasKey(symbol_tables["f"], "count")
       THEN DictGet(symbol_tables["f"], "count").value.num - c ELSE 0)

\* C29: during one call of f each statement of f's body is evaluated at most
\* once: the assignment count = count + 1 inside the one block of the body,
\* which runs its body once, is executed once, also when the block goes on
\* to call g, a name that f's local table does not bind.
C29_EvaluatedOnce ==
    \A kind \in Blocks, with_call \in BOOLEAN, c \in 0..MaxArg :
        ast = BumpProgram(kind, with_call, c) =>
            /\ interpStatus \in {"run", "done"}
            /\ (ast_pos = 4 => Evaluations(c) = 1)

\* C30: every for loop whose body terminates itself terminates, for every
\* integer start s, end e and step k, step 0 and a start beyond the end
\* included: the visit of the loop returns or raises, it never runs on.
C30_ForTerminates ==
    \A s \in 0..MaxStart, e \in 0..MaxEnd, k \in Steps \cup {0}, extra \in Extras :
        ast = ForProgram(s, e, k, extra) => interpStatus /= "Running"

\* C21: evaluation does not modify the trees.  After the visit of a built-in
\* call node, of a function call node or of a list literal node, the node's
\* list of arguments or elements is the list of nodes the parser made, so no
\* visit replaces a list; the second visit of the node, in the next
\* iteration of the loop or in the second call of the enclosing function,
\* evaluates the arguments again and raises nothing.
C21_TreesUnchanged ==
    \A r \in Revisits, v \in 1..MaxArg :
        ast = RevisitProgram(r[1], r[2], v) =>
            /\ interpStatus \in {"run", "done"}
            /\ ~HasKey(node_params, 1)

\* C28: an if condition that chains three atoms with or, each atom 0 or 1,
\* passes exactly when at least one of the atoms is 1
C28_OrChainPasses ==
    \A atoms \in OrAtoms :
        (Len(atoms) = 3 /\ ast = OrProgram(atoms) /\ interpStatus = "done") =>
            (HasKey(symbol_tables["root"], "passed") <=> \E j \in 1..3 : atoms[j] = 1)
====
